---- MODULE Spec2Model ----
(***************************************************************************)
(* Verification model of the SCAI migration backend.                       *)
(*                                                                         *)
(* Part I  (specification Spec): the workflow engine of new-backend: one   *)
(* registered run, its MigrationContext, the nine stage nodes, the LLM     *)
(* supervisor, the conditional edge, and the runner's streams             *)
(* (run_workflow_stream / resume_workflow_stream) started by the HTTP     *)
(* handlers.  A stream executes the compiled graph from its entry point;   *)
(* synchronous node functions run on a worker thread, so a node is in      *)
(* flight between its Begin step and its End step, and the runner handles  *)
(* the node's update in a separate step on the event loop.                 *)
(*                                                                         *)
(* Part II (specification SpecPty): the PTY session's single reader with   *)
(* the capture tap and the marker filter of backend/services/pty_service.  *)
(*                                                                         *)
(* Part III: the services around them, each with its own specification:    *)
(* the PTY registry and the /ws/terminal connections (SpecReg), the chat   *)
(* loop stream_chat_events (SpecChat, SpecChatLive), the LLM client's      *)
(* strategy selection (SpecLlm), the Snowflake session manager and the     *)
(* users of a session's connection (SpecSess), and the SSE formatter       *)
(* build_data_stream (SpecStream).                                         *)
(***************************************************************************)
EXTENDS Integers, Sequences, FiniteSets, TLC

\* ------------------------------------------------------------------ bounds
\* Stream slots: how many run/resume streams of the run may be open at once.
MaxStreams == 2
\* The configured budget max_self_heal_iterations ranges over 0..MaxBudget.
MaxBudget == 1
\* self_heal is not started once self_heal_iteration has reached MaxIter.
MaxIter == 2
\* The converted/ directory holds 0..MaxFiles SQL files.
MaxFiles == 2
\* At most MaxRequests run-stream / resume requests are served for the run
\* when they come one after another, MaxRaceRequests when they may overlap.
MaxRequests == 2
MaxRaceRequests == 3
\* A PTY read returns 1..MaxChunk symbols of the pending output.
MaxChunk == 3
\* At most MaxCommands execute_command calls are made on the session.
MaxCommands == 1
\* execute_command's timeout argument and its idle_fallback, counted in poll
\* intervals of its wait loop
Timeout == 3
IdleFallback == 2
\* At most MaxTerminals /ws/terminal connections are made.
MaxTerminals == 3
\* At most MaxChats chat requests are served.
MaxChats == 1
\* A model response is streamed or chunked into at most MaxDeltas deltas.
MaxDeltas == 3
\* At most MaxLlmCalls calls of the LLM client are made.
MaxLlmCalls == 2
\* At most MaxClients requests use the session manager, one thread each.
MaxClients == 3
\* The event source of a stream would produce at most MaxEvents events.
MaxEvents == 3
\* The activity log length is tracked up to MaxLog entries (it saturates).
MaxLog == 2
\* The decision parser is applied to texts of at most MaxText symbols.
MaxText == 5
MaxEntries == 4
MaxLine == 2
MaxPaths == 2
MaxCalls == 2

Streams == 1..MaxStreams
NoStream == 0

Min(a, b) == IF a < b THEN a ELSE b
Max(a, b) == IF a > b THEN a ELSE b

\* ------------------------------------------------------- stages and graph
TaskNodes ==
    {"init_project", "add_source_code", "apply_schema_mapping", "convert_code",
     "execute_sql", "self_heal", "validate", "human_review", "finalize"}

MigrationState ==
    {"idle", "error", "completed"} \cup TaskNodes

Decisions == {"proceed", "self_heal", "human_review", "finalize", "abort"}

END == "__end__"

\* What the LLM may answer: any decision word, or something else.
Replies == Decisions \cup {"retry"}

\* _ALLOWED_DECISIONS.get(stage, ["proceed", "abort"])
AllowedDecisions(stage) ==
    CASE stage \in {"init_project", "add_source_code", "apply_schema_mapping",
                    "convert_code"} -> {"proceed", "abort"}
      [] stage = "execute_sql" ->
            {"proceed", "self_heal", "human_review", "finalize", "abort"}
      [] stage \in {"self_heal", "validate"} ->
            {"proceed", "self_heal", "finalize", "abort"}
      [] stage = "human_review" -> {"proceed", "abort"}
      [] stage = "finalize" -> {"proceed"}
      [] OTHER -> {"proceed", "abort"}

\* The stages that have a row in _ALLOWED_DECISIONS.
SupervisedStages == TaskNodes

\* _PROCEED_TARGET.get(stage, "finalize")
ProceedTarget(stage) ==
    CASE stage = "init_project" -> "add_source_code"
      [] stage = "add_source_code" -> "apply_schema_mapping"
      [] stage = "apply_schema_mapping" -> "convert_code"
      [] stage = "convert_code" -> "execute_sql"
      [] stage = "execute_sql" -> "validate"
      [] stage = "self_heal" -> "validate"
      [] stage = "validate" -> "finalize"
      [] stage = "human_review" -> "execute_sql"
      [] stage = "finalize" -> END
      [] OTHER -> "finalize"

\* route_after_supervisor: the node the conditional edge selects.
RouteTarget(c) ==
    CASE c.supervisor_decision = "abort" -> "finalize"
      [] c.supervisor_decision = "self_heal" -> "self_heal"
      [] c.supervisor_decision = "human_review" -> "human_review"
      [] c.supervisor_decision = "finalize" -> "finalize"
      [] OTHER -> ProceedTarget(c.current_stage)

\* route_after_supervisor: its side effect on the context (abort => ERROR).
RouteEffect(c) ==
    IF c.supervisor_decision = "abort"
    THEN [c EXCEPT !.current_stage = "error"]
    ELSE c

\* ----------------------------------------------------------- the context
\* log_event: append entries to activity_log (length tracked up to MaxLog).
LogEvent(c, n) == [c EXCEPT !.activity_log = Min(@ + n, MaxLog)]

\* is_error_state
IsErrorState(c) == c.current_stage = "error"

\* summary_report before finalize_node wrote it (the empty dict), with the
\* keys of the report that the status and the counts are read from.
NoReport ==
    [ status               |-> "none",
      validation_passed    |-> FALSE,
      self_heal_iterations |-> 0,
      output_files_count   |-> 0 ]

\* MigrationContext as start_scai_workflow builds it, with budget b.
NewContext(b) ==
    [ current_stage               |-> "idle",
      scai_project_initialized    |-> FALSE,
      scai_source_added           |-> FALSE,
      scai_converted              |-> FALSE,
      converted_code              |-> FALSE,   \* TRUE: non-empty
      self_heal_iteration         |-> 0,
      self_heal_log               |-> 0,       \* len(self_heal_log)
      max_self_heal_iterations    |-> b,
      validation_passed           |-> FALSE,
      execution_passed            |-> FALSE,
      execution_log               |-> {},      \* <<kind, index>> logged success/skipped
      missing_objects             |-> <<>>,
      last_executed_file_index    |-> -1,
      requires_human_intervention |-> FALSE,
      requires_ddl_upload         |-> FALSE,
      ddl_upload_path             |-> "",      \* "", "ddl" or "empty_file"
      supervisor_decision         |-> "",
      summary_report              |-> NoReport,
      output_files                |-> 0,       \* len(output_files)
      output_path                 |-> "",      \* "" or "outputs"
      activity_log                |-> 0,
      activity_log_sink           |-> NoStream ]

\* ------------------------------------------------- upstream error messages
\* Error texts as token sequences; the quote and the object name are tokens.
ErrorMessages ==
    { <<"Object '", "MISSING_TABLE", "'", " does not exist or not authorized">>,
      <<"Schema ", "STAGING", " does not exist">>,
      <<"syntax error line 1">> }

MissingPatterns == {" does not exist or not authorized", " does not exist"}

Openers == <<"Object '", "object '", "Table '", "table '", "\"">>

RECURSIVE ExtractObjectName(_, _)
\* classify_snowflake_error's token loop: the first opener found, then the
\* text up to the next single quote; on no closing quote, the next opener
\* (the messages here carry the name as one token).
ExtractObjectName(msg, k) ==
    IF k > Len(Openers) THEN ""
    ELSE LET at == {i \in 1..Len(msg) : msg[i] = Openers[k]} IN
         IF at = {} THEN ExtractObjectName(msg, k + 1)
         ELSE LET i == CHOOSE x \in at : \A y \in at : x <= y
                  closes == {j \in (i + 1)..Len(msg) : msg[j] = "'"}
              IN IF closes = {} THEN ExtractObjectName(msg, k + 1)
                 ELSE LET j == CHOOSE x \in closes : \A y \in closes : x <= y
                      IN IF j = i + 2 THEN msg[i + 1] ELSE ""

\* classify_snowflake_error: <<error_type, object_name>>
ClassifySnowflakeError(msg) ==
    IF \E i \in 1..Len(msg) : msg[i] \in MissingPatterns
    THEN <<"missing_object", ExtractObjectName(msg, 1)>>
    ELSE <<"execution_error", "">>

\* ------------------------------------------------------------------ state
VARIABLES
    run,        \* _runs[run_id]: [status, paused]
    ctx,        \* run["ctx"]: the MigrationContext
    streams,    \* per stream slot: the runner generator and its graph position
    disk,       \* number of SQL files in projects/<name>/converted
    requests    \* number of run-stream / resume requests served so far

wfVars == <<run, ctx, streams, disk, requests>>

\* The PTY session (Part II).
VARIABLES
    pty_out,         \* output of the PTY process not yet read
    capturing,       \* PtySession._capturing
    capture_buffer,  \* PtySession._capture_buffer: the chunks tapped
    current_marker,  \* PtySession._current_marker is set (not None)
    command,         \* execute_command: idle, started, loop, waiting
    commands,        \* execute_command calls made so far
    forwarded,       \* concatenation of the data read() returned so far
    result,          \* what the last execute_command returned, and by which exit
    capture_event,   \* PtySession._capture_event is set
    now,             \* time.monotonic(), in poll intervals
    wait_loop,       \* execute_command's start, last_data_time, last_seen_len
    arrived_at       \* the time read() tapped the latest chunk

ptyVars == <<pty_out, capturing, capture_buffer, current_marker, command,
             commands, forwarded, result, capture_event, now, wait_loop,
             arrived_at>>

\* The services around the engine and the terminal (Part III).
VARIABLES
    registry,   \* pty_service._registry: session-id -> PtySession (or none)
    terminals   \* per /ws/terminal connection: its PtySession and session-id

regVars == <<registry, terminals>>

VARIABLES
    chat        \* the stream_chat_events generator of the chat request

chatVars == <<chat>>

VARIABLES
    llm         \* one _stream_cortex generator and what its caller received

llmVars == <<llm>>

VARIABLES
    sessions,   \* SnowflakeSessionManager._sessions[session_id] (or none)
    contexts,   \* per SnowflakeContext ever created: none, open, closed
    lock,       \* per SnowflakeContext: the holder of context.lock (or none)
    clients     \* per request thread: its handler and position

sessVars == <<sessions, contexts, lock, clients>>

VARIABLES
    ds          \* one build_data_stream generator, its source and its client

dsVars == <<ds>>

svcVars == <<regVars, chatVars, llmVars, sessVars, dsVars>>

\* Part IV: single functions of the program, applied to inputs drawn from
\* bounded sets.
\* fin     finalize_node applied to one context, once and then again
\* cancel  the client has asked for the run to be cancelled
\* parse   _try_parse_tool_call applied to one text
VARIABLES fin, cancel, parse, bridge, val, pty2
fnVars == <<fin, cancel, parse, bridge, val, pty2>>

FreeStream ==
    [ phase      |-> "free",   \* free, pending, ready, exec, emit, done
      kind       |-> "none",   \* run or resume
      node       |-> "none",   \* the node to run, in flight, or just finished
      last_event |-> "none",   \* type of the last SSE event the stream emitted
      stage      |-> "none",   \* supervisor_node's local `stage`
      error_type |-> "none",   \* execute_sql_node's local `error_type`
      index      |-> 0,        \* execute_sql_node's loop index
      nfiles     |-> 0 ]       \* execute_sql_node's len(sql_files)

WfInit ==
    /\ run = [status |-> "pending", paused |-> FALSE]
    /\ \E b \in 0..MaxBudget : ctx = NewContext(b)
    /\ streams = [s \in Streams |-> FreeStream]
    /\ disk = 0
    /\ requests = 0


\* ------------------------------------------------------------ environment
\* What the world outside the engine may do, as sets the actions draw from:
\*   failing   the nodes whose blocking call (CLI, heal, validation, DDL,
\*             finalize, session lookup) may fail or raise
\*   passes    verdicts a validation may return
\*   files     how many SQL files a conversion may leave in converted/
\*   in_memory whether the in-memory source may be non-empty
\*   msgs      error texts a failing statement may carry
\*   replies   what the supervisor LLM may answer ({} when unreachable)
\*   overlap   whether a request may arrive while a stream of the run is open
\*   requests  how many run-stream / resume requests arrive at most
FullEnv ==
    [ failing   |-> TaskNodes \cup {"supervisor"},
      passes    |-> BOOLEAN,
      files     |-> 0..MaxFiles,
      in_memory |-> BOOLEAN,
      msgs      |-> ErrorMessages,
      replies   |-> Replies,
      overlap   |-> FALSE,
      requests  |-> MaxRequests ]

RaceEnv ==
    [ failing   |-> {"init_project"},
      passes    |-> {TRUE},
      files     |-> {1},
      in_memory |-> {TRUE},
      msgs      |-> {<<"Object '", "MISSING_TABLE", "'",
                       " does not exist or not authorized">>},
      replies   |-> {},
      overlap   |-> TRUE,
      requests  |-> MaxRaceRequests ]

\* Success (TRUE) or failure (FALSE) of node n's blocking call.
Outcomes(e, n) == IF n \in e.failing THEN BOOLEAN ELSE {TRUE}

\* No stream of the run is open.
Quiet == \A t \in Streams : streams[t].phase \in {"free", "done"}

\* A new request takes the lowest idle stream slot.
Idle(s) ==
    /\ streams[s].phase \in {"free", "done"}
    /\ \A t \in Streams : t < s => streams[t].phase \notin {"free", "done"}

\* Scheduling: a node handed to the worker pool starts at once, and a graph
\* stream that ended is finished at once: while a stream is in such a
\* hand-off (phase ready or ending) only that stream steps.
Turn(s) == \A t \in Streams \ {s} : streams[t].phase \notin {"ready", "ending"}

\* ------------------------------------------------------- HTTP handlers
\* GET /api/scai/run/{run_id}: run_scai_workflow, then run_workflow_stream up
\* to its initial status event.  Neither checks the run's status or paused flag.
RunStart(s, e) ==
    /\ Turn(s)
    /\ Idle(s)
    /\ e.overlap \/ Quiet
    /\ requests < e.requests
    /\ requests' = requests + 1
    /\ UNCHANGED <<ptyVars, svcVars, fnVars>>
    /\ run' = [run EXCEPT !.status = "running"]
    /\ ctx' = [ctx EXCEPT !.activity_log_sink = s]
    /\ streams' = [streams EXCEPT ![s] =
            [FreeStream EXCEPT !.phase = "ready", !.kind = "run",
                               !.node = "init_project",
                               !.last_event = "workflow_status"]]
    /\ UNCHANGED disk

\* POST /api/scai/resume/{run_id}: resume_scai_workflow checks paused and
\* returns the streaming response; the generator body runs later.
ResumeRequest(s, e) ==
    /\ Turn(s)
    /\ Idle(s)
    /\ e.overlap \/ Quiet
    /\ run.paused
    /\ requests < e.requests
    /\ requests' = requests + 1
    /\ UNCHANGED <<ptyVars, svcVars, fnVars>>
    /\ streams' = [streams EXCEPT ![s] =
            [FreeStream EXCEPT !.phase = "pending", !.kind = "resume"]]
    /\ UNCHANGED <<run, ctx, disk>>

\* resume_workflow_stream, then run_workflow_stream up to its initial status.
ResumeStart(s) ==
    /\ Turn(s)
    /\ streams[s].phase = "pending"
    /\ UNCHANGED <<requests, ptyVars, svcVars, fnVars>>
    /\ run' = [status |-> "running", paused |-> FALSE]
    /\ ctx' = [ctx EXCEPT !.requires_human_intervention = FALSE,
                          !.current_stage = "execute_sql",
                          !.activity_log_sink = s]
    /\ streams' = [streams EXCEPT ![s] =
            [@ EXCEPT !.phase = "ready", !.node = "init_project",
                      !.last_event = "workflow_status"]]
    /\ UNCHANGED disk

\* POST /api/scai/upload-ddl/{run_id}: upload_ddl stores the file (with
\* statements, or empty) and records its path.
UploadDdl ==
    /\ \A t \in Streams : Turn(t)
    /\ ctx.requires_ddl_upload
    /\ \E f \in {"ddl", "empty_file"} :
          ctx' = [ctx EXCEPT !.ddl_upload_path = f]
    /\ UNCHANGED <<run, streams, disk, requests, ptyVars, svcVars, fnVars>>

\* -------------------------------------------------------- stage nodes
\* The edge out of a task node: finalize -> END, every other -> supervisor.
EdgeFrom(n) == IF n = "finalize" THEN END ELSE "supervisor"

\* The stream after its node `n` returned: the update is ready for the runner.
Returned(st, n) ==
    [st EXCEPT !.phase = "emit",
               !.index = 0, !.nfiles = 0]

\* The stream while its node `n` is in flight on the worker thread.
InFlight(st, n) == [st EXCEPT !.phase = "exec"]

\* _apply_uploaded_ddl when the DDL cannot be applied (no path, empty file,
\* or its execution raised): back to human review.
DdlRejected(c) ==
    LogEvent([c EXCEPT !.current_stage = "human_review",
                       !.requires_human_intervention = TRUE,
                       !.requires_ddl_upload = TRUE], 1)

\* _apply_uploaded_ddl when the DDL executed.
DdlApplied(c) ==
    LogEvent([c EXCEPT !.requires_ddl_upload = FALSE,
                       !.ddl_upload_path = "",
                       !.requires_human_intervention = FALSE], 1)

\* execute_sql_node's loop start: max(0, last_executed_file_index + 1).
StartIndex(c) == Max(0, c.last_executed_file_index + 1)

\* self_heal_node up to apply_self_healing: the counter and the stage.
SelfHealEntry(c) ==
    LogEvent([c EXCEPT !.self_heal_iteration = @ + 1,
                       !.current_stage = "self_heal"], 1)

\* validate_node up to validate_code.
ValidateEntry(c) == LogEvent([c EXCEPT !.current_stage = "validate"], 1)

\* execute_sql_node up to the DDL branch.
ExecuteSqlEntry(c) == LogEvent([c EXCEPT !.current_stage = "execute_sql"], 1)

\* A stage node is called: the is_error_state short-circuit, else the part of
\* the node that runs before its first blocking call.
NodeBegin(s, e) ==
    LET st == streams[s]
        n  == st.node
    IN
    /\ Turn(s)
    /\ st.phase = "ready"
    /\ n \in TaskNodes
    /\ UNCHANGED <<requests, ptyVars, svcVars, fnVars>>
    /\ IF IsErrorState(ctx)
       THEN /\ streams' = [streams EXCEPT ![s] = Returned(st, n)]
            /\ UNCHANGED <<run, ctx, disk>>
       ELSE
       CASE n = "init_project" ->
              \* logs, resets a non-empty project directory, runs scai init
              /\ ctx' = LogEvent(ctx, 1)
              /\ disk' = 0
              /\ streams' = [streams EXCEPT ![s] = InFlight(st, n)]
              /\ UNCHANGED run
         [] n \in {"add_source_code", "apply_schema_mapping", "convert_code",
                   "human_review", "finalize"} ->
              /\ ctx' = LogEvent(ctx, 1)
              /\ streams' = [streams EXCEPT ![s] = InFlight(st, n)]
              /\ UNCHANGED <<run, disk>>
         [] n = "self_heal" ->
              /\ ctx.self_heal_iteration < MaxIter
              /\ LET c1 == SelfHealEntry(ctx)
                 IN IF ~c1.converted_code
                    THEN /\ ctx' = LogEvent(c1, 1)
                         /\ streams' = [streams EXCEPT ![s] = Returned(st, n)]
                    ELSE /\ ctx' = c1
                         /\ streams' = [streams EXCEPT ![s] = InFlight(st, n)]
              /\ UNCHANGED <<run, disk>>
         [] n = "validate" ->
              /\ LET c1 == ValidateEntry(ctx)
                 IN IF ~c1.converted_code
                    THEN /\ ctx' = LogEvent(
                                [c1 EXCEPT !.validation_passed = FALSE], 1)
                         /\ streams' = [streams EXCEPT ![s] = Returned(st, n)]
                    ELSE /\ ctx' = c1
                         /\ streams' = [streams EXCEPT ![s] = InFlight(st, n)]
              /\ UNCHANGED <<run, disk>>
         [] n = "execute_sql" ->
              LET c1 == ExecuteSqlEntry(ctx)
                  loop(c) == [InFlight(st, n) EXCEPT !.index = StartIndex(c),
                                                     !.nfiles = disk]
              IN
              /\ IF ~c1.requires_ddl_upload
                 THEN /\ ctx' = c1
                      /\ streams' = [streams EXCEPT ![s] = loop(c1)]
                 ELSE IF c1.ddl_upload_path # "ddl"
                 THEN /\ ctx' = DdlRejected(c1)
                      /\ streams' = [streams EXCEPT ![s] = Returned(st, n)]
                 ELSE \E ok \in Outcomes(e, n) :
                         IF ok
                         THEN /\ ctx' = DdlApplied(c1)
                              /\ streams' = [streams EXCEPT ![s] = loop(ctx')]
                         ELSE /\ ctx' = DdlRejected(c1)
                              /\ streams' = [streams EXCEPT ![s] =
                                                Returned(st, n)]
              /\ UNCHANGED <<run, disk>>

\* The context after each node's blocking call, ok telling whether the call
\* succeeded (else: non-zero return code or exception).
Staged(c, n, ok) ==
    LogEvent([c EXCEPT !.current_stage = IF ok THEN n ELSE "error"], 1)

\* init_project_node after scai init
InitProjectNode(c, ok) ==
    Staged([c EXCEPT !.scai_project_initialized = ok], "init_project", ok)

\* add_source_code_node after scai code add (a context with a source input)
AddSourceCodeNode(c, ok) ==
    Staged([c EXCEPT !.scai_source_added = ok], "add_source_code", ok)

\* apply_schema_mapping_node after process_sql_with_pandas_replace
ApplySchemaMappingNode(c, ok) == Staged(c, "apply_schema_mapping", ok)

\* convert_code_node after scai code convert; code: converted_code non-empty
\* (the concatenated converted files, or the in-memory source when none)
ConvertCodeNode(c, ok, code) ==
    IF ok
    THEN Staged([c EXCEPT !.scai_converted = TRUE, !.converted_code = code],
                "convert_code", ok)
    ELSE Staged([c EXCEPT !.scai_converted = FALSE], "convert_code", ok)

\* self_heal_node after apply_self_healing: healed or heal failed (the stage
\* stays self_heal), or an exception
SelfHealNode(c, ok) ==
    LET c1 == [c EXCEPT !.self_heal_log = @ + 1]
    IN IF ok THEN LogEvent(c1, 1) ELSE Staged(c1, "self_heal", ok)

\* validate_node after validate_code
ValidateNode(c, ok, passed) ==
    IF ok THEN LogEvent([c EXCEPT !.validation_passed = passed], 1)
    ELSE Staged([c EXCEPT !.validation_passed = FALSE], "validate", ok)

\* human_review_node
HumanReviewNode(c) ==
    [c EXCEPT !.current_stage = "human_review",
              !.requires_human_intervention = TRUE]

\* finalize_node's summary_report for a context whose output is collected.
SummaryReport(c) ==
    [ status               |-> "completed",
      validation_passed    |-> c.validation_passed,
      self_heal_iterations |-> c.self_heal_iteration,
      output_files_count   |-> c.output_files ]

\* finalize_node after its first log entry: it appends one output path per
\* file of converted/ (k files), then writes the report; ok is FALSE when
\* makedirs or the copy of file k + 1 raised.
FinalizeNode(c, ok, k) ==
    LET c1 == [c EXCEPT !.output_files = @ + k]
    IN IF ok
       THEN LogEvent([c1 EXCEPT !.summary_report = SummaryReport(c1),
                                !.output_path = "outputs",
                                !.validation_passed = TRUE,
                                !.current_stage = "completed"], 1)
       ELSE Staged(c1, "finalize", ok)

\* A stage node other than execute_sql finishes its blocking call; the
\* outcome of the call is the environment's.
NodeEnd(s, e) ==
    LET st == streams[s]
        n  == st.node
    IN
    /\ Turn(s)
    /\ st.phase = "exec"
    /\ n \in TaskNodes \ {"execute_sql"}
    /\ UNCHANGED <<requests, ptyVars, svcVars, fnVars>>
    /\ streams' = [streams EXCEPT ![s] = Returned(st, n)]
    /\ UNCHANGED run
    /\ \E ok \in Outcomes(e, n) :
       CASE n = "init_project" ->
              ctx' = InitProjectNode(ctx, ok) /\ UNCHANGED disk
         [] n = "add_source_code" ->
              ctx' = AddSourceCodeNode(ctx, ok) /\ UNCHANGED disk
         [] n = "apply_schema_mapping" ->
              ctx' = ApplySchemaMappingNode(ctx, ok) /\ UNCHANGED disk
         [] n = "convert_code" ->
              IF ok
              THEN \E k \in e.files, code \in e.in_memory \cup {TRUE} :
                      /\ k > 0 => code
                      /\ disk' = k
                      /\ ctx' = ConvertCodeNode(ctx, ok, code)
              ELSE ctx' = ConvertCodeNode(ctx, ok, FALSE) /\ UNCHANGED disk
         [] n = "self_heal" ->
              ctx' = SelfHealNode(ctx, ok) /\ UNCHANGED disk
         [] n = "validate" ->
              /\ \E passed \in e.passes : ctx' = ValidateNode(ctx, ok, passed)
              /\ UNCHANGED disk
         [] n = "human_review" ->
              ctx' = HumanReviewNode(ctx) /\ UNCHANGED disk
         [] n = "finalize" ->
              /\ \E k \in IF ok THEN {disk} ELSE 0..disk :
                    ctx' = FinalizeNode(ctx, ok, k)
              /\ UNCHANGED disk

\* ----------------------------------------------------------- execute_sql
InSeq(x, q) == \E i \in 1..Len(q) : q[i] = x

\* execute_sql_node's success block.
ExecSucceeded(c) ==
    LogEvent([c EXCEPT !.execution_passed = TRUE,
                       !.missing_objects = <<>>], 1)

\* execute_sql_node's except block for the error text msg.
ExecFailed(c, msg) ==
    LET cls  == ClassifySnowflakeError(msg)
        name == cls[2]
    IN IF cls[1] = "missing_object"
       THEN LogEvent(
              [c EXCEPT !.execution_passed = FALSE,
                        !.missing_objects =
                            IF name # "" /\ ~InSeq(name, @)
                            THEN Append(@, name) ELSE @,
                        !.requires_ddl_upload = TRUE,
                        !.requires_human_intervention = TRUE,
                        !.current_stage = "human_review"], 1)
       ELSE LogEvent([c EXCEPT !.execution_passed = FALSE], 1)

\* The ValueError text when there is nothing to execute.
NoSqlMessage == <<"No converted SQL files or converted_code found">>

\* The stream after execute_sql_node's except block handled error text msg.
Raised(st, msg) ==
    [Returned(st, "execute_sql") EXCEPT
        !.error_type = ClassifySnowflakeError(msg)[1]]

\* A converted file's statements are executed (loop body for st.index).
ExecFile(s, e) ==
    LET st == streams[s]
        i  == st.index
    IN
    /\ Turn(s)
    /\ st.phase = "exec" /\ st.node = "execute_sql"
    /\ i < st.nfiles
    /\ UNCHANGED <<run, disk, requests, ptyVars, svcVars, fnVars>>
    /\ \/ \* every statement succeeded, or the file was empty (skipped)
          LET c1 == [ctx EXCEPT !.execution_log = @ \cup {<<"file", i>>},
                                !.last_executed_file_index = i]
          IN IF i + 1 < st.nfiles
             THEN /\ ctx' = c1
                  /\ streams' = [streams EXCEPT ![s].index = i + 1]
             ELSE /\ ctx' = ExecSucceeded(c1)
                  /\ streams' = [streams EXCEPT ![s] =
                                    Returned(st, "execute_sql")]
       \/ \E msg \in e.msgs :
             /\ ctx' = ExecFailed(ctx, msg)
             /\ streams' = [streams EXCEPT ![s] = Raised(st, msg)]

\* The loop has no file to run: nothing left after a resume, or no converted
\* directory content (then converted_code is executed, or ValueError).
ExecNoFile(s, e) ==
    LET st == streams[s] IN
    /\ Turn(s)
    /\ st.phase = "exec" /\ st.node = "execute_sql"
    /\ st.index >= st.nfiles
    /\ UNCHANGED <<run, disk, requests, ptyVars, svcVars, fnVars>>
    /\ IF st.nfiles > 0
       THEN /\ ctx' = ExecSucceeded(ctx)
            /\ streams' = [streams EXCEPT ![s] = Returned(st, "execute_sql")]
       ELSE IF ctx.converted_code
       THEN \/ /\ ctx' = ExecSucceeded(
                      [ctx EXCEPT !.execution_log = @ \cup {<<"in_memory", 0>>},
                                  !.last_executed_file_index = 0])
               /\ streams' = [streams EXCEPT ![s] =
                                 Returned(st, "execute_sql")]
            \/ \E msg \in e.msgs :
                  /\ ctx' = ExecFailed(ctx, msg)
                  /\ streams' = [streams EXCEPT ![s] = Raised(st, msg)]
       ELSE /\ ctx' = ExecFailed(ctx, NoSqlMessage)
            /\ streams' = [streams EXCEPT ![s] = Raised(st, NoSqlMessage)]

\* ------------------------------------------------------------- supervisor
\* _parse_supervisor_response: the declared decision (or, for a reply that is
\* not JSON, the option word found in the text) when allowed, else "proceed".
ParseSupervisorResponse(reply, allowed) ==
    IF reply \in allowed THEN reply ELSE "proceed"

\* The fallback without the budget test after a failed validation.
DeterministicFallbackNoBudget(c, allowed) ==
    CASE c.current_stage = "error" -> "finalize"
      [] c.current_stage = "execute_sql" ->
            IF c.execution_passed THEN "proceed"
            ELSE IF c.missing_objects # <<>> /\ "human_review" \in allowed
            THEN "human_review"
            ELSE IF "self_heal" \in allowed THEN "self_heal"
            ELSE "finalize"
      [] c.current_stage = "validate" ->
            IF c.validation_passed THEN "proceed"
            ELSE IF "self_heal" \in allowed THEN "self_heal"
            ELSE "finalize"
      [] OTHER -> "proceed"

\* _deterministic_fallback
DeterministicFallback(c, allowed) ==
    CASE c.current_stage = "error" -> "finalize"
      [] c.current_stage = "execute_sql" ->
            IF c.execution_passed THEN "proceed"
            ELSE IF c.missing_objects # <<>> /\ "human_review" \in allowed
            THEN "human_review"
            ELSE IF "self_heal" \in allowed THEN "self_heal"
            ELSE "finalize"
      [] c.current_stage = "validate" ->
            IF c.validation_passed THEN "proceed"
            ELSE IF /\ c.self_heal_iteration < c.max_self_heal_iterations
                    /\ "self_heal" \in allowed
            THEN "self_heal"
            ELSE "finalize"
      [] OTHER -> "proceed"

\* The supervisor returned with context c: the conditional edge is evaluated
\* in the same graph step, and the runner emits the supervisor_reasoning
\* event and its reasoning delta for the update (it changes no state).
Routed(st, c) ==
    IF RouteTarget(c) = END
    THEN [st EXCEPT !.phase = "ending", !.node = "none", !.stage = "none",
                    !.last_event = "reasoning"]
    ELSE [st EXCEPT !.phase = "ready", !.node = RouteTarget(c),
                    !.stage = "none", !.last_event = "reasoning"]

\* supervisor_node is called: reads `stage`, auto-routes for error/completed
\* and for a pending human review, else logs and goes to the LLM.
SupervisorBegin(s) ==
    LET st    == streams[s]
        stage == ctx.current_stage
        auto(d) == LogEvent([ctx EXCEPT !.supervisor_decision = d], 1)
    IN
    /\ Turn(s)
    /\ st.phase = "ready" /\ st.node = "supervisor"
    /\ UNCHANGED <<run, disk, requests, ptyVars, svcVars, fnVars>>
    /\ IF stage \in {"error", "completed"}
       THEN LET c1 == auto(IF stage = "error" THEN "finalize" ELSE "proceed")
            IN /\ ctx' = RouteEffect(c1)
               /\ streams' = [streams EXCEPT ![s] = Routed(st, c1)]
       ELSE IF stage = "human_review" /\ ctx.requires_human_intervention
       THEN LET c1 == auto("human_review")
            IN /\ ctx' = RouteEffect(c1)
               /\ streams' = [streams EXCEPT ![s] = Routed(st, c1)]
       ELSE /\ ctx' = LogEvent(ctx, 1)
            /\ streams' = [streams EXCEPT ![s] =
                              [st EXCEPT !.phase = "exec", !.stage = stage]]

\* supervisor_node after the session lookup / LLM call, then the edge.
SupervisorEnd(s, e) ==
    LET st      == streams[s]
        allowed == AllowedDecisions(st.stage)
        decided(d) ==
            LET c1 == LogEvent([ctx EXCEPT !.supervisor_decision = d], 1)
            IN /\ ctx' = RouteEffect(c1)
               /\ streams' = [streams EXCEPT ![s] = Routed(st, c1)]
    IN
    /\ Turn(s)
    /\ st.phase = "exec" /\ st.node = "supervisor"
    /\ UNCHANGED <<run, disk, requests, ptyVars, svcVars, fnVars>>
    /\ \/ \* the LLM answered
          \E reply \in e.replies :
             decided(ParseSupervisorResponse(reply, allowed))
       \/ \* no session, or the LLM call raised
          decided(DeterministicFallback(ctx, allowed))
       \/ \* get_snowflake_session raised: outer except
          /\ FALSE \in Outcomes(e, "supervisor")
          /\ decided("proceed")

\* ----------------------------------------------------------------- runner
\* run_workflow_stream handles one update of the graph stream.
Emit(s) ==
    LET st == streams[s]
        onward == IF EdgeFrom(st.node) = END
                  THEN [st EXCEPT !.phase = "ending", !.node = "none",
                                  !.error_type = "none"]
                  ELSE [st EXCEPT !.phase = "ready", !.error_type = "none",
                                  !.node = EdgeFrom(st.node)]
    IN
    /\ Turn(s)
    /\ st.phase = "emit"
    /\ UNCHANGED <<disk, requests, ptyVars, svcVars, fnVars>>
    /\ IF /\ ctx.current_stage = "human_review"
               /\ ctx.requires_human_intervention
       THEN \* status, queued log entries, pause event, return (finally)
            /\ run' = [status |-> "paused", paused |-> TRUE]
            /\ ctx' = [ctx EXCEPT !.activity_log_sink = NoStream]
            /\ streams' = [streams EXCEPT ![s] =
                  [FreeStream EXCEPT !.phase = "done",
                                     !.last_event = "human_review_required"]]
       ELSE \* status and queued log entries
            /\ streams' = [streams EXCEPT ![s] =
                              [onward EXCEPT !.last_event = "workflow_status"]]
            /\ UNCHANGED <<run, ctx>>

\* run_workflow_stream after the graph stream ended: final status, summary.
Finish(s) ==
    LET st == streams[s] IN
    /\ Turn(s)
    /\ st.phase = "ending"
    /\ UNCHANGED <<requests, ptyVars, svcVars, fnVars>>
    /\ run' = [run EXCEPT !.status =
                  IF ctx.current_stage = "error" THEN "failed" ELSE "completed"]
    /\ ctx' = [ctx EXCEPT !.activity_log_sink = NoStream]
    /\ streams' = [streams EXCEPT ![s] =
          [FreeStream EXCEPT !.phase = "done",
                             !.last_event =
                                IF ctx.summary_report # NoReport THEN "text"
                                ELSE "workflow_status"]]
    /\ UNCHANGED disk

\* =============================================================== PTY session
\* Terminal text is a sequence of symbols: "esc" a complete ANSI escape
\* sequence, "c" the command text, "echo" the text " ; echo ", "m1" "m2" the
\* two halves of the marker, "o" command output, "nl" a line break.
Marker == <<"m1", "m2">>

EchoMarker == <<"echo">> \o Marker

\* What the command itself prints (it does not contain the marker).
CommandOutput == <<"o">>

\* What the shell prints for full_command: the echoed command line, the
\* command's output, then the marker printed by the trailing echo.
ShellOutput ==
    <<"esc", "c">> \o EchoMarker \o <<"nl">> \o CommandOutput \o <<"nl">>
        \o Marker \o <<"nl">>

\* pat occurs in text as a contiguous run of symbols.
Contains(text, pat) ==
    \E i \in 1..(Len(text) - Len(pat) + 1) :
        SubSeq(text, i, i + Len(pat) - 1) = pat

RECURSIVE Replace(_, _)
\* str.replace(pat, ""): remove the occurrences of pat, left to right.
Replace(text, pat) ==
    IF Len(text) < Len(pat) THEN text
    ELSE IF SubSeq(text, 1, Len(pat)) = pat
    THEN Replace(SubSeq(text, Len(pat) + 1, Len(text)), pat)
    ELSE <<Head(text)>> \o Replace(Tail(text), pat)

\* _strip_ansi: remove the escape sequences.
StripAnsi(text) == SelectSeq(text, LAMBDA x : x # "esc")

RECURSIVE Join(_)
\* "".join(chunks)
Join(chunks) ==
    IF chunks = <<>> THEN <<>> ELSE Head(chunks) \o Join(Tail(chunks))

\* str.index / str.find: position of the first occurrence of pat, 0 if none.
Find(text, pat) ==
    IF Contains(text, pat)
    THEN CHOOSE i \in 1..(Len(text) - Len(pat) + 1) :
            /\ SubSeq(text, i, i + Len(pat) - 1) = pat
            /\ \A j \in 1..(i - 1) : SubSeq(text, j, j + Len(pat) - 1) # pat
    ELSE 0

RECURSIVE LStrip(_)
LStrip(text) ==
    IF text # <<>> /\ Head(text) = "nl" THEN LStrip(Tail(text)) ELSE text

RECURSIVE RStrip(_)
RStrip(text) ==
    IF text # <<>> /\ text[Len(text)] = "nl"
    THEN RStrip(SubSeq(text, 1, Len(text) - 1)) ELSE text

\* str.strip(): drop the leading and trailing whitespace.
Strip(text) == RStrip(LStrip(text))

\* Remove the first line (the command echo) if there is a line break.
DropFirstLine(text) ==
    IF Find(text, <<"nl">>) > 0
    THEN SubSeq(text, Find(text, <<"nl">>) + 1, Len(text))
    ELSE text

\* execute_command's value when the marker is in the stripped capture.
OutputBeforeMarker(clean) ==
    Strip(DropFirstLine(SubSeq(clean, 1, Find(clean, Marker) - 1)))

\* What the shell may print for full_command: everything; only the start of
\* the echoed line (the command takes the shell down); nothing (it hangs).
ShellOutputs == {ShellOutput, <<"esc", "c">>, <<>>}

\* chunks: the buffer's length at the return (the finally block's buf_len).
NoResult == [by |-> "none", text |-> <<>>, chunks |-> 0]

NoLoop == [start |-> 0, last_data_time |-> 0, last_seen_len |-> 0,
           deadline |-> 0]

PtyInit ==
    /\ result = NoResult
    /\ pty_out = <<>>
    /\ capturing = FALSE
    /\ capture_buffer = <<>>
    /\ current_marker = FALSE
    /\ command = "idle"
    /\ commands = 0
    /\ forwarded = <<>>
    /\ capture_event = FALSE
    /\ now = 0
    /\ wait_loop = NoLoop
    /\ arrived_at = 0

\* execute_command up to the sleep: marker set, capture tap activated.
ExecuteCommandStart ==
    /\ command = "idle"
    /\ commands < MaxCommands
    /\ commands' = commands + 1
    /\ current_marker' = TRUE
    /\ capture_buffer' = <<>>
    /\ capture_event' = FALSE
    /\ capturing' = TRUE
    /\ command' = "started"
    /\ UNCHANGED <<pty_out, forwarded, result, now, wait_loop, arrived_at,
                   wfVars, svcVars, fnVars>>

\* execute_command writes full_command (the shell prints what it prints) and
\* sets up the wait loop's clocks.
ExecuteCommandWrite ==
    /\ command = "started"
    /\ \E out \in ShellOutputs : pty_out' = pty_out \o out
    /\ wait_loop' = [start |-> now, last_data_time |-> now, last_seen_len |-> 0,
                deadline |-> now]
    /\ command' = "loop"
    /\ UNCHANGED <<capturing, capture_buffer, current_marker, commands,
                   forwarded, result, capture_event, now, arrived_at,
                   wfVars, svcVars, fnVars>>

\* read with the tap after the marker filter: the capture gets what the
\* browser gets.
ReadTapsFiltered(n) ==
    LET data == SubSeq(pty_out, 1, n)
        shown == IF current_marker
                 THEN Replace(Replace(data, EchoMarker), Marker)
                 ELSE data
    IN
    /\ n <= Len(pty_out)
    /\ pty_out' = SubSeq(pty_out, n + 1, Len(pty_out))
    /\ IF capturing
       THEN /\ capture_buffer' = Append(capture_buffer, shown)
            /\ capture_event' = TRUE
            /\ arrived_at' = now
       ELSE UNCHANGED <<capture_buffer, capture_event, arrived_at>>
    /\ forwarded' = forwarded \o shown
    /\ UNCHANGED <<capturing, current_marker, command, commands, result,
                   now, wait_loop, wfVars, svcVars, fnVars>>

\* PtySession.read: one chunk of n symbols; tap, then the marker filter.
Read(n) ==
    LET data == SubSeq(pty_out, 1, n)
        shown == IF current_marker
                 THEN Replace(Replace(data, EchoMarker), Marker)
                 ELSE data
    IN
    /\ n <= Len(pty_out)
    /\ pty_out' = SubSeq(pty_out, n + 1, Len(pty_out))
    /\ IF capturing
       THEN /\ capture_buffer' = Append(capture_buffer, data)
            /\ capture_event' = TRUE
            /\ arrived_at' = now
       ELSE UNCHANGED <<capture_buffer, capture_event, arrived_at>>
    /\ forwarded' = forwarded \o shown
    /\ UNCHANGED <<capturing, current_marker, command, commands, result,
                   now, wait_loop, wfVars, svcVars, fnVars>>

\* The wait loop's bookkeeping in one iteration: new chunks restart the idle
\* clock.
Tracked(l) ==
    IF Len(capture_buffer) > l.last_seen_len
    THEN [l EXCEPT !.last_data_time = now,
                   !.last_seen_len = Len(capture_buffer)]
    ELSE l

\* The loop's exit with an idle fallback that does not ask for data.
LoopExitIdleWithoutData ==
    IF now - wait_loop.start >= Timeout THEN "timeout"
    ELSE IF Contains(StripAnsi(Join(capture_buffer)), Marker) THEN "marker"
    ELSE IF now - Tracked(wait_loop).last_data_time >= IdleFallback
    THEN "idle"
    ELSE "wait"

\* How the iteration that starts now leaves the loop: "timeout", "marker",
\* "idle", or "wait" when it goes on to wait for the capture event.
LoopExit ==
    IF now - wait_loop.start >= Timeout THEN "timeout"
    ELSE IF Contains(StripAnsi(Join(capture_buffer)), Marker) THEN "marker"
    ELSE IF /\ now - Tracked(wait_loop).last_data_time >= IdleFallback
            /\ Len(capture_buffer) > 0
    THEN "idle"
    ELSE "wait"

\* One iteration of the wait loop that does not return: it clears the event
\* and waits for it, for one poll interval at most.
ExecuteCommandLoop ==
    /\ command = "loop"
    /\ LoopExit = "wait"
    /\ wait_loop' = [Tracked(wait_loop) EXCEPT !.deadline = now + 1]
    /\ capture_event' = FALSE
    /\ command' = "waiting"
    /\ UNCHANGED <<pty_out, capturing, capture_buffer, current_marker,
                   commands, forwarded, result, now, arrived_at,
                   wfVars, svcVars, fnVars>>

\* The poll interval passes while execute_command waits for the event.
Tick ==
    /\ command = "waiting"
    /\ ~capture_event
    /\ now < wait_loop.deadline
    /\ now' = now + 1
    /\ UNCHANGED <<pty_out, capturing, capture_buffer, current_marker,
                   command, commands, forwarded, result, capture_event,
                   wait_loop, arrived_at, wfVars, svcVars, fnVars>>

\* The wait without its timeout: only the event ends it.
ExecuteCommandWakeOnEventOnly ==
    /\ command = "waiting"
    /\ capture_event
    /\ command' = "loop"
    /\ UNCHANGED <<pty_out, capturing, capture_buffer, current_marker,
                   commands, forwarded, result, capture_event, now, wait_loop,
                   arrived_at, wfVars, svcVars, fnVars>>

\* wait_for returns: the event was set, or the poll interval is over.
ExecuteCommandWake ==
    /\ command = "waiting"
    /\ capture_event \/ now >= wait_loop.deadline
    /\ command' = "loop"
    /\ UNCHANGED <<pty_out, capturing, capture_buffer, current_marker,
                   commands, forwarded, result, capture_event, now, wait_loop,
                   arrived_at, wfVars, svcVars, fnVars>>

\* The returning iteration without the finally block.
ExecuteCommandReturnKeepsCapture ==
    LET clean == StripAnsi(Join(capture_buffer))
        text  == CASE LoopExit = "marker" -> OutputBeforeMarker(clean)
                   [] LoopExit = "idle" -> Strip(DropFirstLine(clean))
                   [] OTHER -> Strip(clean)
    IN
    /\ command = "loop"
    /\ LoopExit # "wait"
    /\ result' = [by |-> LoopExit, text |-> text,
                  chunks |-> Len(capture_buffer)]
    /\ command' = "idle"
    /\ wait_loop' = NoLoop
    /\ UNCHANGED <<pty_out, capturing, capture_buffer, capture_event,
                   current_marker, commands, forwarded, now, arrived_at,
                   wfVars, svcVars, fnVars>>

\* The iteration of the wait loop that returns: the total timeout is over,
\* the marker is in the stripped capture, or the idle fallback fires; then
\* the finally block.
ExecuteCommandReturn ==
    LET clean == StripAnsi(Join(capture_buffer))
        text  == CASE LoopExit = "marker" -> OutputBeforeMarker(clean)
                   [] LoopExit = "idle" -> Strip(DropFirstLine(clean))
                   [] OTHER -> Strip(clean)
    IN
    /\ command = "loop"
    /\ LoopExit # "wait"
    /\ result' = [by |-> LoopExit, text |-> text,
                  chunks |-> Len(capture_buffer)]
    /\ capturing' = FALSE
    /\ capture_buffer' = <<>>
    /\ capture_event' = FALSE
    /\ command' = "idle"
    /\ wait_loop' = NoLoop          \* the call's frame is gone
    /\ UNCHANGED <<pty_out, current_marker, commands, forwarded, now,
                   arrived_at, wfVars, svcVars, fnVars>>

\* execute_command ends by an exception: the write raises, or the task is
\* cancelled while it sleeps or waits for the event; the finally block runs.
ExecuteCommandRaises ==
    /\ command \in {"started", "waiting"}
    /\ result' = [by |-> "raised", text |-> <<>>,
                  chunks |-> Len(capture_buffer)]
    /\ capturing' = FALSE
    /\ capture_buffer' = <<>>
    /\ capture_event' = FALSE
    /\ command' = "idle"
    /\ wait_loop' = NoLoop
    /\ UNCHANGED <<pty_out, current_marker, commands, forwarded, now,
                   arrived_at, wfVars, svcVars, fnVars>>

\* The session's steps, the reader taking chunks of the sizes in N.
PtyStep(N) ==
    \/ ExecuteCommandStart
    \/ ExecuteCommandWrite
    \/ \E n \in N : Read(n)
    \/ ExecuteCommandLoop
    \/ Tick
    \/ ExecuteCommandWake
    \/ ExecuteCommandReturn

PtyNext == PtyStep(1..MaxChunk)

\* The session's steps when a call may also end by an exception.
PtyRaiseNext == PtyStep(1..MaxChunk) \/ ExecuteCommandRaises

\* ============================================================ PTY registry
\* A PtySession is named by the /ws/terminal connection that created it.
Terminals == 1..MaxTerminals
NoSession == 0
\* The session cookie's value, or "default" when the socket carries none.
SessionIds == {"default", "sid"}

\* register_session: _registry[session_id] = session
Register(reg, id, s) == [reg EXCEPT ![id] = s]

\* unregister_session: _registry.pop(session_id, None)
Unregister(reg, id) == [reg EXCEPT ![id] = NoSession]

\* get_session: _registry.get(session_id)
GetSession(reg, id) == reg[id]

NoTerminal == [state |-> "none", id |-> "none"]

\* PtySession.is_alive: spawned, not closed, process alive.
IsAlive(s) == s # NoSession /\ terminals[s].state = "open"

RegInit ==
    /\ registry = [id \in SessionIds |-> NoSession]
    /\ terminals = [t \in Terminals |-> NoTerminal]

\* ws_terminal up to register_session: a PtySession is created, spawned and
\* registered under the socket's session-id.
WsTerminalConnect(t, id) ==
    /\ terminals[t].state = "none"
    /\ terminals' = [terminals EXCEPT ![t] = [state |-> "open", id |-> id]]
    /\ registry' = Register(registry, id, t)
    /\ UNCHANGED <<wfVars, ptyVars, chatVars, llmVars,
                   sessVars, dsVars, fnVars>>

\* The shell process of a session exits (the session is not closed yet).
ShellExits(t) ==
    /\ terminals[t].state = "open"
    /\ terminals' = [terminals EXCEPT ![t].state = "exited"]
    /\ UNCHANGED <<registry, wfVars, ptyVars, chatVars, llmVars,
                   sessVars, dsVars, fnVars>>

\* ws_terminal's finally block on WebSocketDisconnect: unregister the
\* session-id, close the handler's own session.
WsTerminalDisconnect(t) ==
    /\ terminals[t].state \in {"open", "exited"}
    /\ registry' = Unregister(registry, terminals[t].id)
    /\ terminals' = [terminals EXCEPT ![t].state = "closed"]
    /\ UNCHANGED <<wfVars, ptyVars, chatVars, llmVars,
                   sessVars, dsVars, fnVars>>

\* The connections in T come and go.
RegStep(T) ==
    \/ \E t \in T, id \in SessionIds : WsTerminalConnect(t, id)
    \/ \E t \in T : ShellExits(t)
    \/ \E t \in T : WsTerminalDisconnect(t)

RegNext == RegStep(Terminals)

\* ================================================================ chat loop
\* stream_chat_events: the loop's iteration bound.
max_tool_iterations == 15

\* The session cookie of the chat request.
ChatSessionId == "sid"

\* What one buffered LLM call gives the loop: an exception, plain text (empty
\* or not), or a tool-call JSON by action (run_command / run_tool with or
\* without a command); a finish or pause JSON may come after narration.
Responses ==
    {"error", "text", "blank", "finish", "pause", "command", "empty_command",
     "narrated_finish", "narrated_pause"}

NoChat ==
    [ phase       |-> "idle",  \* idle, call, llm, exec, done
      iteration   |-> 0,       \* the for loop's `iteration`
      calls       |-> 0,       \* LLM calls made by the request
      last_event  |-> "none",  \* the last delta the generator yielded
      response    |-> "none",  \* what the latest LLM call returned
      end_deltas  |-> 0,       \* deltas yielded for the response that ended
                               \* the request
      executed    |-> FALSE,   \* a command was executed in the request
      no_terminal |-> FALSE,   \* 'no active terminal' was reported
      chats       |-> 0 ]      \* chat requests served so far

ChatInit == chat = NoChat

\* POST /api/chat reaches stream_chat_events.
ChatRequest ==
    /\ chat.phase \in {"idle", "done"}
    /\ chat.chats < MaxChats
    /\ chat' = [NoChat EXCEPT !.phase = "call", !.chats = chat.chats + 1]
    /\ UNCHANGED <<wfVars, ptyVars, regVars, llmVars, sessVars, dsVars, fnVars>>

\* Top of the loop body: the thinking indicator on later iterations, then
\* the buffered LLM call is handed to the executor.
CallLlm ==
    /\ chat.phase = "call"
    /\ chat.iteration < max_tool_iterations
    /\ chat' = [chat EXCEPT !.phase = "llm",
                            !.calls = @ + 1,
                            !.last_event = IF chat.iteration > 0 THEN "analyzing"
                                           ELSE @]
    /\ UNCHANGED <<wfVars, ptyVars, regVars, llmVars, sessVars, dsVars, fnVars>>

\* The loop with a pause that feeds nothing back and goes on.
AfterResponsePauseContinues(r) ==
    LET got  == [chat EXCEPT !.response = r]
        next == [got EXCEPT !.phase = "call", !.iteration = @ + 1]
        end(ev, n) == [got EXCEPT !.phase = "done", !.last_event = ev,
                                  !.end_deltas = n]
    IN
    CASE r = "error"  -> end("llm_error", 1)
      [] r = "text"   -> end("text", 1)
      [] r = "blank"  -> [got EXCEPT !.phase = "done"]
      [] r = "finish" -> end("summary", 1)
      [] r = "narrated_finish" -> end("summary", 2)
      [] OTHER -> [next EXCEPT !.last_event = "guidance"]

\* The chat state after the LLM call returned r and the loop acted on it, up
\* to its next await: the deltas it yields, and whether it returns.
AfterResponse(r) ==
    LET pty  == GetSession(registry, ChatSessionId)
        got  == [chat EXCEPT !.response = r]
        next == [got EXCEPT !.phase = "call", !.iteration = @ + 1]
        end(ev, n) == [got EXCEPT !.phase = "done", !.last_event = ev,
                                  !.end_deltas = n]
    IN
    CASE r = "error"  -> end("llm_error", 1)
      [] r = "text"   -> end("text", 1)
      [] r = "blank"  -> [got EXCEPT !.phase = "done"]
      [] r = "finish" -> end("summary", 1)
      [] r = "pause"  -> end("guidance", 1)
      \* text before the JSON is forwarded first, as a delta of its own
      [] r = "narrated_finish" -> end("summary", 2)
      [] r = "narrated_pause"  -> end("guidance", 2)
      [] r = "empty_command" -> next
      [] r = "command" ->
           IF ~IsAlive(pty)
           THEN [next EXCEPT !.last_event = "no_terminal",
                             !.no_terminal = TRUE]
           ELSE [got EXCEPT !.phase = "exec", !.last_event = "command"]

\* The LLM call returns r; the loop acts on it up to its next await.
LlmReturns(r) ==
    /\ chat.phase = "llm"
    /\ chat' = AfterResponse(r)
    /\ UNCHANGED <<wfVars, ptyVars, regVars, llmVars, sessVars, dsVars, fnVars>>

\* pty_session.execute_command returns or raises; the status delta, the
\* result fed back, next iteration.
CommandReturns ==
    /\ chat.phase = "exec"
    /\ chat' = [chat EXCEPT !.phase = "call", !.iteration = @ + 1,
                            !.last_event = "status", !.executed = TRUE]
    /\ UNCHANGED <<wfVars, ptyVars, regVars, llmVars, sessVars, dsVars, fnVars>>

\* The for loop ends without the safety-limit delta.
IterationsExhaustedSilently ==
    /\ chat.phase = "call"
    /\ chat.iteration = max_tool_iterations
    /\ chat' = [chat EXCEPT !.phase = "done"]
    /\ UNCHANGED <<wfVars, ptyVars, regVars, llmVars, sessVars, dsVars, fnVars>>

\* The for loop is exhausted: the safety-limit delta.
IterationsExhausted ==
    /\ chat.phase = "call"
    /\ chat.iteration = max_tool_iterations
    /\ chat' = [chat EXCEPT !.phase = "done", !.last_event = "max_iterations"]
    /\ UNCHANGED <<wfVars, ptyVars, regVars, llmVars, sessVars, dsVars, fnVars>>

ChatNext ==
    \/ ChatRequest
    \/ CallLlm
    \/ \E r \in Responses : LlmReturns(r)
    \/ CommandReturns
    \/ IterationsExhausted

\* =============================================================== LLM client
\* model_config.cortex_function after strip().lower(); "other" stands for
\* any function that is neither complete nor ai_complete.
CortexFunctions == {"complete", "ai_complete", "other"}

\* _stream_cortex: can_use_rest
CanUseRest(fn) == fn \in {"complete", "ai_complete"}

NoLlm ==
    [ pc       |-> "idle",  \* idle, rest, sql, chunks, returned, raised
      started  |-> FALSE,   \* _stream_cortex's local `started`
      tried    |-> <<>>,    \* the strategies attempted, in order
      yielded  |-> <<>>,    \* the events the caller received: <<strategy, k>>
      left     |-> 0,       \* chunks of the SQL response still to yield
      calls    |-> 0 ]      \* calls made so far

LlmInit == llm = NoLlm

\* The events of strategy s among evs.
EventsOf(evs, s) == SelectSeq(evs, LAMBDA ev : ev[1] = s)

\* _stream_cortex is called: REST streaming when the function allows it,
\* else straight to the SQL strategy.
StreamCortex(fn) ==
    /\ llm.pc \in {"idle", "returned", "raised"}
    /\ llm.calls < MaxLlmCalls
    /\ llm' = [NoLlm EXCEPT !.calls = llm.calls + 1,
                            !.pc = IF CanUseRest(fn) THEN "rest" ELSE "sql",
                            !.tried = IF CanUseRest(fn) THEN <<"rest">>
                                      ELSE <<"sql">>]
    /\ UNCHANGED <<wfVars, ptyVars, regVars, chatVars, sessVars, dsVars, fnVars>>

\* _stream_cortex_rest_api yields an item: started is set, the item is
\* passed on.
RestYields ==
    /\ llm.pc = "rest"
    /\ Len(llm.yielded) < MaxDeltas
    /\ llm' = [llm EXCEPT !.started = TRUE,
                          !.yielded = Append(@, <<"rest", Len(@) + 1>>)]
    /\ UNCHANGED <<wfVars, ptyVars, regVars, chatVars, sessVars, dsVars, fnVars>>

\* The REST stream ends normally.
RestCompletes ==
    /\ llm.pc = "rest"
    /\ llm' = [llm EXCEPT !.pc = "returned"]
    /\ UNCHANGED <<wfVars, ptyVars, regVars, chatVars, sessVars, dsVars, fnVars>>

\* The REST strategy falls back to SQL whatever was yielded already.
RestFailsAlwaysFallBack ==
    /\ llm.pc = "rest"
    /\ llm' = [llm EXCEPT !.pc = "sql", !.tried = Append(@, "sql")]
    /\ UNCHANGED <<wfVars, ptyVars, regVars, chatVars, sessVars, dsVars, fnVars>>

\* _stream_cortex_rest_api raises: re-raised once started, else the SQL
\* fallback is entered.
RestFails ==
    /\ llm.pc = "rest"
    /\ llm' = IF llm.started
              THEN [llm EXCEPT !.pc = "raised"]
              ELSE [llm EXCEPT !.pc = "sql", !.tried = Append(@, "sql")]
    /\ UNCHANGED <<wfVars, ptyVars, regVars, chatVars, sessVars, dsVars, fnVars>>

\* _stream_cortex_sql_fallback: _run_cortex_request returns the whole text
\* (n chunks) or raises (query error, empty message).
SqlRequestReturns(ok, n) ==
    /\ llm.pc = "sql"
    /\ llm' = IF ok THEN [llm EXCEPT !.pc = "chunks", !.left = n]
              ELSE [llm EXCEPT !.pc = "raised"]
    /\ UNCHANGED <<wfVars, ptyVars, regVars, chatVars, sessVars, dsVars, fnVars>>

\* _stream_cortex_sql_fallback yields the next chunk, and returns after the
\* last.
SqlYields ==
    /\ llm.pc = "chunks"
    /\ llm.left > 0
    /\ llm' = [llm EXCEPT
                 !.yielded = Append(@, <<"sql", Len(EventsOf(@, "sql")) + 1>>),
                 !.left = @ - 1,
                 !.pc = IF llm.left = 1 THEN "returned" ELSE "chunks"]
    /\ UNCHANGED <<wfVars, ptyVars, regVars, chatVars, sessVars, dsVars, fnVars>>

LlmNext ==
    \/ \E fn \in CortexFunctions : StreamCortex(fn)
    \/ RestYields
    \/ RestCompletes
    \/ RestFails
    \/ \E ok \in BOOLEAN, n \in 1..MaxDeltas : SqlRequestReturns(ok, n)
    \/ SqlYields

\* ========================================================== session manager
\* One browser session-id; a SnowflakeContext is named by the request that
\* created it.
Clients == 1..MaxClients
NoContext == 0

\* prior: the context create_or_replace's disconnect popped (its `context`)
NoClient ==
    [op |-> "none", pc |-> "idle", ctx |-> NoContext, prior |-> NoContext]

SessInit ==
    /\ sessions = NoContext
    /\ contexts = [k \in Clients |-> "none"]
    /\ lock = [k \in Clients |-> NoContext]
    /\ clients = [c \in Clients |-> NoClient]

\* The contexts after SnowflakeSessionManager.disconnect: the popped entry's
\* session is closed.
Disconnected(cx, popped) ==
    IF popped = NoContext THEN cx ELSE [cx EXCEPT ![popped] = "closed"]

\* The requests in flight on context k's connection.
UsingConnection(k) ==
    {c \in Clients : clients[c].ctx = k /\ clients[c].pc \in {"validating", "llm"}}

\* A variant of CreateOrReplaceBegin that connects before it disconnects.
CreateOrReplaceBeginKeepsPrior(c) ==
    /\ clients[c].pc = "idle"
    /\ clients' = [clients EXCEPT ![c] = [op |-> "connect", pc |-> "connecting",
                                          ctx |-> NoContext,
                                          prior |-> sessions]]
    /\ UNCHANGED <<sessions, contexts, lock, wfVars, ptyVars, regVars, chatVars,
                   llmVars, dsVars, fnVars>>

\* create_or_replace up to the connect call: disconnect(session_id).
CreateOrReplaceBegin(c) ==
    /\ clients[c].pc = "idle"
    /\ sessions' = NoContext
    /\ contexts' = Disconnected(contexts, sessions)
    /\ clients' = [clients EXCEPT ![c] = [op |-> "connect", pc |-> "connecting",
                                          ctx |-> NoContext,
                                          prior |-> sessions]]
    /\ UNCHANGED <<lock, wfVars, ptyVars, regVars, chatVars, llmVars, dsVars, fnVars>>

\* create_or_replace after the connect call: on success the new context is
\* stored under the session-id; on failure SnowflakeSessionError.
CreateOrReplaceEnd(c, ok) ==
    /\ clients[c].pc = "connecting"
    /\ IF ok
       THEN /\ contexts' = [contexts EXCEPT ![c] = "open"]
            /\ sessions' = c
            /\ clients' = [clients EXCEPT ![c] = [@ EXCEPT !.pc = "done",
                                                           !.ctx = c]]
       ELSE /\ clients' = [clients EXCEPT ![c].pc = "done"]
            /\ UNCHANGED <<sessions, contexts>>
    /\ UNCHANGED <<lock, wfVars, ptyVars, regVars, chatVars, llmVars, dsVars, fnVars>>

\* POST /api/snowflake/disconnect: disconnect(session_id).
Disconnect(c) ==
    /\ clients[c].pc = "idle"
    /\ sessions' = NoContext
    /\ contexts' = Disconnected(contexts, sessions)
    /\ clients' = [clients EXCEPT ![c] = [op |-> "disconnect", pc |-> "done",
                                          ctx |-> NoContext,
                                          prior |-> NoContext]]
    /\ UNCHANGED <<lock, wfVars, ptyVars, regVars, chatVars, llmVars, dsVars, fnVars>>

\* chat_endpoint: get_context (an expired context is disconnected), then
\* validate_connection is handed to the thread pool.
GetContext(c, expired) ==
    /\ clients[c].pc = "idle"
    /\ IF sessions = NoContext
       THEN /\ clients' = [clients EXCEPT ![c] = [op |-> "chat", pc |-> "done",
                                                  ctx |-> NoContext,
                                          prior |-> NoContext]]
            /\ UNCHANGED <<sessions, contexts>>
       ELSE IF expired
       THEN /\ sessions' = NoContext
            /\ contexts' = Disconnected(contexts, sessions)
            /\ clients' = [clients EXCEPT ![c] = [op |-> "chat", pc |-> "done",
                                                  ctx |-> NoContext,
                                          prior |-> NoContext]]
       ELSE /\ clients' = [clients EXCEPT ![c] = [op |-> "chat",
                                                  pc |-> "validating",
                                                  ctx |-> sessions,
                                          prior |-> NoContext]]
            /\ UNCHANGED <<sessions, contexts>>
    /\ UNCHANGED <<lock, wfVars, ptyVars, regVars, chatVars, llmVars, dsVars, fnVars>>

\* validate_connection's SELECT 1 returns or raises; on an exception
\* disconnect(context.session_id) and the request ends.
ValidateConnectionEnd(c, ok) ==
    /\ clients[c].pc = "validating"
    /\ IF ok
       THEN /\ clients' = [clients EXCEPT ![c].pc = "wait_lock"]
            /\ UNCHANGED <<sessions, contexts>>
       ELSE /\ sessions' = NoContext
            /\ contexts' = Disconnected(contexts, sessions)
            /\ clients' = [clients EXCEPT ![c].pc = "done"]
    /\ UNCHANGED <<lock, wfVars, ptyVars, regVars, chatVars, llmVars, dsVars, fnVars>>

\* _call_cortex_buffered: `with context.lock` is entered, the LLM call
\* starts on the context's connection.
CallCortexBuffered(c) ==
    /\ clients[c].pc = "wait_lock"
    /\ lock[clients[c].ctx] = NoContext
    /\ lock' = [lock EXCEPT ![clients[c].ctx] = c]
    /\ clients' = [clients EXCEPT ![c].pc = "llm"]
    /\ UNCHANGED <<sessions, contexts, wfVars, ptyVars, regVars, chatVars,
                   llmVars, dsVars, fnVars>>

\* The LLM call ends (returns or raises); the lock is released.
CallCortexBufferedEnd(c) ==
    /\ clients[c].pc = "llm"
    /\ lock' = [lock EXCEPT ![clients[c].ctx] = NoContext]
    /\ clients' = [clients EXCEPT ![c].pc = "done"]
    /\ UNCHANGED <<sessions, contexts, wfVars, ptyVars, regVars, chatVars,
                   llmVars, dsVars, fnVars>>

SessNext ==
    \/ \E c \in Clients : CreateOrReplaceBegin(c)
    \/ \E c \in Clients, ok \in BOOLEAN : CreateOrReplaceEnd(c, ok)
    \/ \E c \in Clients : Disconnect(c)
    \/ \E c \in Clients, expired \in BOOLEAN : GetContext(c, expired)
    \/ \E c \in Clients, ok \in BOOLEAN : ValidateConnectionEnd(c, ok)
    \/ \E c \in Clients : CallCortexBuffered(c)
    \/ \E c \in Clients : CallCortexBufferedEnd(c)

\* ========================================================= stream formatter
\* build_data_stream exists twice: backend/stream (serving /api/chat) and
\* new-backend/stream.
Formatters == {"backend", "new-backend"}

NoDataStream ==
    [ pc           |-> "idle",    \* idle, top, waiting, closed
      impl         |-> "none",    \* which build_data_stream
      n            |-> 0,         \* events the source produces if left to run
      delivered    |-> 0,         \* events received from the source
      source       |-> "none",    \* running, cancelled
      disconnected |-> FALSE,     \* request.is_disconnected()
      ended_by     |-> "none",    \* disconnect, exhausted, error
      out          |-> <<>> ]     \* what the formatter yielded

DsInit == ds = NoDataStream

\* build_data_stream is started over a source of n events: start, text-start.
BuildDataStream(impl, n) ==
    /\ ds.pc = "idle"
    /\ ds' = [NoDataStream EXCEPT !.pc = "top", !.impl = impl, !.n = n,
                                  !.source = "running",
                                  !.out = <<"start", "text-start">>]
    /\ UNCHANGED <<wfVars, ptyVars, regVars, chatVars, llmVars, sessVars, fnVars>>

\* The browser goes away.
ClientDisconnects ==
    /\ ds.pc \in {"top", "waiting"}
    /\ ~ds.disconnected
    /\ ds' = [ds EXCEPT !.disconnected = TRUE]
    /\ UNCHANGED <<wfVars, ptyVars, regVars, chatVars, llmVars, sessVars, fnVars>>

\* Top of the loop: on a disconnected client return (new-backend: after an
\* abort part); else wait for the next event.
CheckDisconnected ==
    /\ ds.pc = "top"
    /\ ds' = IF ds.disconnected
             THEN [ds EXCEPT !.pc = "closed", !.ended_by = "disconnect",
                             !.out = IF ds.impl = "new-backend"
                                     THEN Append(@, "abort") ELSE @]
             ELSE [ds EXCEPT !.pc = "waiting"]
    /\ UNCHANGED <<wfVars, ptyVars, regVars, chatVars, llmVars, sessVars, fnVars>>

\* wait_for returns the source's next event within the interval: text-delta.
EventArrives ==
    /\ ds.pc = "waiting"
    /\ ds.source = "running"
    /\ ds.delivered < ds.n
    /\ ds' = [ds EXCEPT !.pc = "top", !.delivered = @ + 1,
                        !.out = Append(@, "text-delta")]
    /\ UNCHANGED <<wfVars, ptyVars, regVars, chatVars, llmVars, sessVars, fnVars>>

\* The interval passes first: wait_for cancels the pending __anext__() (the
\* CancelledError ends the source generator at its await) and raises
\* asyncio.TimeoutError; the formatter yields a ping and loops.  The backend
\* formatter catches the builtin TimeoutError, which is asyncio's only from
\* Python 3.11 on: before, the exception leaves the formatter (caught = FALSE).
PingTimeout(caught) ==
    /\ ds.pc = "waiting"
    /\ ds.source = "running"
    /\ ds.delivered < ds.n
    /\ ~caught => ds.impl = "backend"
    /\ ds' = IF caught
             THEN [ds EXCEPT !.pc = "top", !.source = "cancelled",
                             !.out = Append(@, "ping")]
             ELSE [ds EXCEPT !.pc = "closed", !.source = "cancelled",
                             !.ended_by = "error"]
    /\ UNCHANGED <<wfVars, ptyVars, regVars, chatVars, llmVars, sessVars, fnVars>>

\* __anext__() raises StopAsyncIteration (the source returned, or it was
\* ended by a cancellation): text-end, finish, [DONE].
SourceExhausted ==
    /\ ds.pc = "waiting"
    /\ ds.source = "cancelled" \/ ds.delivered = ds.n
    /\ ds' = [ds EXCEPT !.pc = "closed", !.ended_by = "exhausted",
                        !.out = @ \o <<"text-end", "finish", "done">>]
    /\ UNCHANGED <<wfVars, ptyVars, regVars, chatVars, llmVars, sessVars, fnVars>>

DsNext ==
    \/ \E impl \in Formatters, n \in 0..MaxEvents : BuildDataStream(impl, n)
    \/ ClientDisconnects
    \/ CheckDisconnected
    \/ EventArrives
    \/ \E caught \in BOOLEAN : PingTimeout(caught)
    \/ SourceExhausted

\* ============================================================ finalize_node
\* finalize_node as a whole: the error short-circuit, the first log entry,
\* then the collection and the report over the k files of converted/.
FinalizeCall(c, ok, k) ==
    IF IsErrorState(c) THEN c ELSE FinalizeNode(LogEvent(c, 1), ok, k)

\* Contexts as they reach finalize on a first run: after validate, after a
\* heal, after execute_sql (decision finalize), with either verdict.
FinalizeInputs ==
    { [NewContext(b) EXCEPT !.current_stage = stage,
                            !.scai_project_initialized = TRUE,
                            !.scai_source_added = TRUE,
                            !.scai_converted = TRUE,
                            !.validation_passed = passed,
                            !.self_heal_iteration = i] :
        b \in 0..MaxBudget, stage \in {"execute_sql", "self_heal", "validate"},
        passed \in BOOLEAN, i \in 0..MaxIter }

NoFinalize ==
    [ pc    |-> "none",          \* none, input, first, second
      k     |-> 0,               \* files in converted/
      c     |-> NewContext(0),   \* the context finalize_node works on
      first |-> NewContext(0) ]  \* the context as the first call left it

FinInit == fin = NoFinalize /\ cancel = FALSE

\* A workflow reaches finalize with context c and k converted files.
FinalizeContext(c, k) ==
    /\ fin.pc = "none"
    /\ fin' = [fin EXCEPT !.pc = "input", !.k = k, !.c = c]
    /\ UNCHANGED <<cancel, parse, bridge, val, pty2, wfVars, ptyVars, svcVars>>

\* finalize_node runs on the context: the first call, then, on the context
\* it completed, a second one.
Finalize(ok) ==
    /\ \/ fin.pc = "input"
       \/ fin.pc = "first" /\ fin.c.current_stage = "completed"
    /\ \E k \in IF ok THEN {fin.k} ELSE 0..fin.k :
          LET c1 == FinalizeCall(fin.c, ok, k)
          IN fin' = IF fin.pc = "input"
                    THEN [fin EXCEPT !.pc = "first", !.c = c1, !.first = c1]
                    ELSE [fin EXCEPT !.pc = "second", !.c = c1]
    /\ UNCHANGED <<cancel, parse, bridge, val, pty2, wfVars, ptyVars, svcVars>>

FinNext ==
    \/ \E c \in FinalizeInputs, k \in 0..MaxFiles : FinalizeContext(c, k)
    \/ \E ok \in BOOLEAN : Finalize(ok)

\* ========================================================= decision parser
\* An LLM response is a sequence of symbols: "{" and "}" braces, "q" a double
\* quote, "b" a backslash, "x" a letter, and two whole members of an object:
\* "A" for "action": "finish" (an action the loop knows) and "B" for
\* "action": "other".  The text is `cleaned`: stripped, code fence removed.
JsonChars == {"{", "}", "q", "b", "x", "A", "B"}

Texts == UNION {[1..n -> JsonChars] : n \in 0..MaxText}

RECURSIVE ScanObject(_, _, _, _, _)
\* _extract_json_objects, the inner while from position i: the position of
\* the brace that closes the object, or 0 when the text ends first.  A member
\* is four quotes and no brace: it leaves the string state as it is, unless
\* its first quote is escaped.
ScanObject(s, i, depth, in_string, escape_next) ==
    IF i > Len(s) THEN 0
    ELSE IF escape_next
    THEN ScanObject(s, i + 1, depth,
                    IF s[i] \in {"A", "B"} THEN ~in_string ELSE in_string,
                    FALSE)
    ELSE IF s[i] = "b" /\ in_string
    THEN ScanObject(s, i + 1, depth, in_string, TRUE)
    ELSE IF s[i] = "q"
    THEN ScanObject(s, i + 1, depth, ~in_string, FALSE)
    ELSE IF ~in_string /\ s[i] = "{"
    THEN ScanObject(s, i + 1, depth + 1, in_string, FALSE)
    ELSE IF ~in_string /\ s[i] = "}"
    THEN IF depth - 1 = 0 THEN i
         ELSE ScanObject(s, i + 1, depth - 1, in_string, FALSE)
    ELSE ScanObject(s, i + 1, depth, in_string, FALSE)

RECURSIVE ExtractJsonObjects(_, _)
\* _extract_json_objects, the outer while from position i: the balanced
\* top-level objects, in order.
ExtractJsonObjects(s, i) ==
    IF i > Len(s) THEN <<>>
    ELSE IF s[i] = "{"
    THEN LET e == ScanObject(s, i, 0, FALSE, FALSE)
         IN IF e = 0 THEN <<>>
            ELSE <<SubSeq(s, i, e)>> \o ExtractJsonObjects(s, e + 1)
    ELSE ExtractJsonObjects(s, i + 1)

\* json.loads(candidate) succeeds and gives a dict: over these symbols, an
\* object with no member or with one member.
IsJsonObject(c) == c \in {<<"{", "}">>, <<"{", "A", "}">>, <<"{", "B", "}">>}

\* obj.get("action") in ("run_command", "run_tool", "finish", "pause")
IsToolCall(c) == IsJsonObject(c) /\ c = <<"{", "A", "}">>

\* None
Null == <<>>

RECURSIVE FirstToolCall(_)
\* the for loop over the candidates: the first valid tool call
FirstToolCall(objects) ==
    IF objects = <<>> THEN Null
    ELSE IF IsToolCall(Head(objects)) THEN Head(objects)
    ELSE FirstToolCall(Tail(objects))

\* The parser that gives up when the first candidate is no tool call.
TryParseFirstObjectOnly(text) ==
    LET objects == ExtractJsonObjects(text, 1)
    IN IF objects # <<>> /\ IsToolCall(Head(objects)) THEN Head(objects)
       ELSE Null

\* _try_parse_tool_call on the cleaned text
TryParseToolCall(text) == FirstToolCall(ExtractJsonObjects(text, 1))

NoParse == [pc |-> "none", text |-> <<>>, value |-> Null]

ParseInit == parse = NoParse

\* stream_chat_events hands the LLM's response to the parser.
ParseResponse ==
    /\ parse.pc = "none"
    /\ \E text \in Texts :
          parse' = [pc |-> "parsed", text |-> text,
                    value |-> TryParseToolCall(text)]
    /\ UNCHANGED <<fin, cancel, bridge, val, pty2, wfVars, ptyVars, svcVars>>

ParseNext == ParseResponse

\* ====================================================== activity-log bridge
\* The bridge between log_event and the run stream: the entries appended to
\* ctx.activity_log are numbered in append order; each run stream owns an
\* event_queue, and ctx.activity_log_sink puts into the queue of the stream
\* that wired it last.
\*   log       number of entries appended to ctx.activity_log
\*   sink      the stream whose activity_sink is wired, or NoStream
\*   queue     each stream's event_queue
\*   delivered the entries each stream has sent as reasoning deltas
\*   phase     "idle", "node" (a stage or the supervisor is executing),
\*             "update" (the stream handles a task-node update), "done"
NoBridge ==
    [ log       |-> 0,
      sink      |-> NoStream,
      queue     |-> [s \in Streams |-> <<>>],
      delivered |-> [s \in Streams |-> <<>>],
      phase     |-> [s \in Streams |-> "idle"] ]

BridgeInit == bridge = NoBridge

BridgeUnchanged ==
    UNCHANGED <<fin, cancel, parse, val, pty2, wfVars, ptyVars, svcVars>>

\* run_workflow_stream begins: a new event_queue, and the context's sink is
\* set to this stream's activity_sink, whatever it was.
BridgeStreamStart(s) ==
    /\ bridge.phase[s] = "idle"
    /\ IF s = 1 THEN TRUE ELSE bridge.phase[s - 1] # "idle"
    /\ bridge' = [bridge EXCEPT !.sink = s, !.queue[s] = <<>>,
                                !.phase[s] = "node"]
    /\ BridgeUnchanged

\* log_event, called by a stage or the supervisor of a running stream: the
\* entry is appended to the log and handed to the sink if one is wired.
BridgeLogEvent ==
    /\ \E s \in Streams : bridge.phase[s] = "node"
    /\ bridge.log < MaxEntries
    /\ LET entry == bridge.log + 1
       IN bridge' = IF bridge.sink = NoStream
                    THEN [bridge EXCEPT !.log = entry]
                    ELSE [bridge EXCEPT !.log = entry,
                             !.queue[bridge.sink] = Append(@, entry)]
    /\ BridgeUnchanged

\* The graph yields the update of a task node (the update of the supervisor
\* is answered without reading the queue).
BridgeUpdate(s) ==
    /\ bridge.phase[s] = "node"
    /\ bridge' = [bridge EXCEPT !.phase[s] = "update"]
    /\ BridgeUnchanged

\* A variant of BridgeDeliver that reads the head of the queue and leaves
\* it there.
BridgeDeliverPeek(s) ==
    /\ bridge.phase[s] = "update"
    /\ bridge.queue[s] # <<>>
    /\ bridge' = [bridge EXCEPT
                     !.delivered[s] = Append(@, Head(bridge.queue[s]))]
    /\ BridgeUnchanged

\* One turn of the drain loop: get_nowait, then the reasoning delta is sent.
BridgeDeliver(s) ==
    /\ bridge.phase[s] = "update"
    /\ bridge.queue[s] # <<>>
    /\ bridge' = [bridge EXCEPT
                     !.queue[s] = Tail(@),
                     !.delivered[s] = Append(@, Head(bridge.queue[s]))]
    /\ BridgeUnchanged

\* The drain loop finds the queue empty: the stream waits for the next
\* update, or pauses for human review and returns through the finally block.
BridgeDrained(s) ==
    /\ bridge.phase[s] = "update"
    /\ bridge.queue[s] = <<>>
    /\ \/ bridge' = [bridge EXCEPT !.phase[s] = "node"]
       \/ bridge' = [bridge EXCEPT !.phase[s] = "done", !.sink = NoStream]
    /\ BridgeUnchanged

\* The graph ends or raises: the finally block clears the context's sink.
BridgeStreamEnd(s) ==
    /\ bridge.phase[s] = "node"
    /\ bridge' = [bridge EXCEPT !.phase[s] = "done", !.sink = NoStream]
    /\ BridgeUnchanged

BridgeNext ==
    \/ \E s \in Streams : BridgeStreamStart(s)
    \/ BridgeLogEvent
    \/ \E s \in Streams : BridgeUpdate(s)
    \/ \E s \in Streams : BridgeDeliver(s)
    \/ \E s \in Streams : BridgeDrained(s)
    \/ \E s \in Streams : BridgeStreamEnd(s)

\* ======================================================= validate stage
\* The validate stage as a function of what the earlier stages left: the
\* source files, the files of converted/, and the context's original_code
\* and converted_code.  A text is a sequence of characters, "n" the line
\* feed, "x" any other character, "h" the text of a "-- FILE: name" header.
LineChars == {"x", "n"}

FileTexts == UNION {[1..k -> LineChars] : k \in 0..MaxLine}

\* A path of source_files that is not a file on disk.
NotAFile == <<"?">>

\* _count_lines: len(text.splitlines()) if text else 0
CountLines(text) ==
    Cardinality({i \in 1..Len(text) : text[i] = "n"})
       + (IF text # <<>> /\ text[Len(text)] # "n" THEN 1 ELSE 0)

\* _count_lines_from_files's None
NoCount == -1

RECURSIVE CountFound(_)
\* _count_lines_from_files, the loop: the lines of the paths that are files
CountFound(paths) ==
    IF paths = <<>> THEN 0
    ELSE (IF Head(paths) = NotAFile THEN 0 ELSE CountLines(Head(paths)))
            + CountFound(Tail(paths))

\* _count_lines_from_files
CountLinesFromFiles(paths) ==
    IF \E i \in 1..Len(paths) : paths[i] # NotAFile
    THEN CountFound(paths) ELSE NoCount

RECURSIVE ReadSqlFiles(_)
\* read_sql_files: "\n".join of "-- FILE: name\n<content>\n" per file
ReadSqlFiles(files) ==
    IF files = <<>> THEN <<>>
    ELSE IF Head(files) = NotAFile THEN ReadSqlFiles(Tail(files))
    ELSE LET part == <<"h", "n">> \o Head(files) \o <<"n">>
             rest == ReadSqlFiles(Tail(files))
         IN IF rest = <<>> THEN part ELSE part \o <<"n">> \o rest

\* convert_code_node: converted_code is the converted files read, or the
\* in-memory source when they are empty
ConvertedCode(converted_files, original_code) ==
    LET code == ReadSqlFiles(converted_files)
    IN IF code # <<>> THEN code ELSE original_code

\* validate_code: passed, from the line counts
ValidateCode(code, original_code, source_files, converted_files) ==
    LET from_in  == CountLinesFromFiles(source_files)
        from_out == CountLinesFromFiles(converted_files)
        input_line_count ==
            IF from_in = NoCount THEN CountLines(original_code) ELSE from_in
        output_line_count ==
            IF from_out = NoCount THEN CountLines(code) ELSE from_out
    IN output_line_count >= input_line_count

\* validate_node: validation_passed, for a context that is not in error
ValidateStage(c) ==
    IF c.converted_code = <<>> THEN FALSE
    ELSE ValidateCode(c.converted_code, c.original_code, c.source_files,
                      c.converted_files)

NoValidate ==
    [ pc |-> "none",
      source_files |-> <<>>, converted_files |-> <<>>,
      original_code |-> <<>>, converted_code |-> <<>>,
      validation_passed |-> FALSE ]

ValInit == val = NoValidate

ValUnchanged ==
    UNCHANGED <<fin, cancel, parse, bridge, pty2, wfVars, ptyVars, svcVars>>

SourcePaths ==
    UNION {[1..k -> FileTexts \cup {NotAFile}] : k \in 0..MaxPaths}

ConvertedPaths == UNION {[1..k -> FileTexts] : k \in 0..MaxPaths}

\* add_source_code and convert_code leave the context's inputs of validate.
ValidateContext ==
    /\ val.pc = "none"
    /\ \E src \in SourcePaths, conv \in ConvertedPaths :
          LET original == ReadSqlFiles(src)
          IN val' = [NoValidate EXCEPT
                        !.pc = "converted",
                        !.source_files = src,
                        !.converted_files = conv,
                        !.original_code = original,
                        !.converted_code = ConvertedCode(conv, original)]
    /\ ValUnchanged

\* validate_node runs on the context.
Validate ==
    /\ val.pc = "converted"
    /\ val' = [val EXCEPT !.pc = "validated",
                          !.validation_passed = ValidateStage(val)]
    /\ ValUnchanged

ValNext == ValidateContext \/ Validate

\* ============================================ concurrent execute_command
\* One PTY session used by several execute_command calls at a time (two chat
\* requests of one browser session).  The session's fields are shared, each
\* call has its frame.  A chunk is a line: <<"e", c>> the terminal's echo of
\* call c's command line, <<"o", c>> the output of its command, <<"m", c>>
\* the output of its marker echo.
\*   capturing, current_marker, capture_buffer   the session's fields
\*   out     what the shell has written and the reader has not read yet
\*   frame   per call: pc (idle, started, waiting, returned), by, output
Calls == 1..MaxCalls

NoFrame == [pc |-> "idle", by |-> "none", output |-> <<>>]

NoPty2 ==
    [ capturing      |-> FALSE,
      current_marker |-> 0,
      capture_buffer |-> <<>>,
      out            |-> <<>>,
      frame          |-> [c \in Calls |-> NoFrame] ]

Pty2Init == pty2 = NoPty2

Pty2Unchanged ==
    UNCHANGED <<fin, cancel, parse, bridge, val, wfVars, ptyVars, svcVars>>

\* execute_command up to the first await: the call's marker is made current,
\* the buffer is cleared, the tap is switched on.
ConcurrentStart(c) ==
    /\ pty2.frame[c].pc = "idle"
    /\ pty2' = [pty2 EXCEPT !.current_marker = c,
                            !.capture_buffer = <<>>,
                            !.capturing = TRUE,
                            !.frame[c].pc = "started"]
    /\ Pty2Unchanged

\* After the 0.3 s sleep the command and its marker echo are written; the
\* shell answers with the echoed line, the output and the marker.
ConcurrentWrite(c) ==
    /\ pty2.frame[c].pc = "started"
    /\ pty2' = [pty2 EXCEPT
                   !.out = @ \o <<(<<"e", c>>), (<<"o", c>>), (<<"m", c>>)>>,
                   !.frame[c].pc = "waiting"]
    /\ Pty2Unchanged

\* PtySession.read, called by the WebSocket reader: the chunk is copied
\* into the buffer while the tap is on.
ConcurrentRead ==
    /\ pty2.out # <<>>
    /\ pty2' = [pty2 EXCEPT
                   !.out = Tail(@),
                   !.capture_buffer =
                       IF pty2.capturing THEN Append(@, Head(pty2.out))
                       ELSE @]
    /\ Pty2Unchanged

\* Position of call c's marker in the buffer, or 0.
MarkerIndex(buf, c) ==
    IF \E i \in 1..Len(buf) : buf[i] = <<"m", c>>
    THEN CHOOSE i \in 1..Len(buf) :
            /\ buf[i] = <<"m", c>>
            /\ \A j \in 1..(i - 1) : buf[j] # <<"m", c>>
    ELSE 0

\* The text without its first line.
WithoutFirstLine(buf) == IF buf = <<>> THEN buf ELSE Tail(buf)

\* The wait loop finds the call's own marker: the text before it, without
\* the first line, is returned; the finally block switches the tap off and
\* clears the buffer.
ConcurrentMarkerFound(c) ==
    /\ pty2.frame[c].pc = "waiting"
    /\ MarkerIndex(pty2.capture_buffer, c) > 0
    /\ pty2' = [pty2 EXCEPT
                   !.frame[c] =
                      [pc |-> "returned", by |-> "marker",
                       output |-> WithoutFirstLine(
                          SubSeq(pty2.capture_buffer, 1,
                                 MarkerIndex(pty2.capture_buffer, c) - 1))],
                   !.capturing = FALSE,
                   !.capture_buffer = <<>>]
    /\ Pty2Unchanged

\* The wait loop reaches the timeout without its marker: what the buffer
\* holds is returned; the finally block as above.
ConcurrentTimeout(c) ==
    /\ pty2.frame[c].pc = "waiting"
    /\ MarkerIndex(pty2.capture_buffer, c) = 0
    /\ pty2.out = <<>>
    /\ pty2' = [pty2 EXCEPT
                   !.frame[c] = [pc |-> "returned", by |-> "timeout",
                                 output |-> pty2.capture_buffer],
                   !.capturing = FALSE,
                   !.capture_buffer = <<>>]
    /\ Pty2Unchanged

Pty2Next ==
    \/ \E c \in Calls : ConcurrentStart(c)
    \/ \E c \in Calls : ConcurrentWrite(c)
    \/ ConcurrentRead
    \/ \E c \in Calls : ConcurrentMarkerFound(c)
    \/ \E c \in Calls : ConcurrentTimeout(c)

\* ============================================================= cancellation
\* The client asks the server to cancel the running run.  The application
\* routes start, run, status, upload-ddl and resume only, and a run record
\* holds ctx, status, created_at and paused: the request is answered 404 and
\* changes nothing the runner, the stages or the supervisor read.
CancelRequest ==
    /\ run.status = "running"
    /\ ~cancel
    /\ cancel' = TRUE
    /\ UNCHANGED <<fin, parse, bridge, val, pty2, wfVars, ptyVars, svcVars>>

\* One client, its requests one after another; the first stage may fail, a
\* statement may miss its table, the supervisor LLM is unreachable.
CancelEnv == [RaceEnv EXCEPT !.overlap = FALSE, !.requests = MaxRequests]

\* ------------------------------------------------------------ specification
vars == <<wfVars, ptyVars, svcVars, fnVars>>

Init ==
    /\ WfInit /\ PtyInit /\ RegInit /\ ChatInit /\ LlmInit /\ SessInit
    /\ DsInit /\ FinInit /\ ParseInit /\ BridgeInit /\ ValInit
    /\ Pty2Init

\* The overlapping-requests specification starts with the largest budget.
RaceInit == Init /\ ctx.max_self_heal_iterations = MaxBudget

\* The engine in environment e.
WfStep(e) ==
    \/ \E s \in Streams : RunStart(s, e)
    \/ \E s \in Streams : ResumeRequest(s, e)
    \/ \E s \in Streams : ResumeStart(s)
    \/ UploadDdl
    \/ \E s \in Streams : NodeBegin(s, e)
    \/ \E s \in Streams : NodeEnd(s, e)
    \/ \E s \in Streams : ExecFile(s, e)
    \/ \E s \in Streams : ExecNoFile(s, e)
    \/ \E s \in Streams : SupervisorBegin(s)
    \/ \E s \in Streams : SupervisorEnd(s, e)
    \/ \E s \in Streams : Emit(s)
    \/ \E s \in Streams : Finish(s)

\* Requests served one after another, every outcome of the environment.
WfNext == WfStep(FullEnv)

\* Overlapping requests, with the supervisor LLM unreachable.
RaceNext == WfStep(RaceEnv)

CancelNext == WfStep(CancelEnv) \/ CancelRequest

\* The supervisor's LLM is unreachable (no session, or the call raises):
\* every evaluation is decided by _deterministic_fallback.
FallbackEnv == [FullEnv EXCEPT !.replies = {}, !.failing = TaskNodes]

FallbackNext == WfStep(FallbackEnv)

\* One run, served once, in which the LLM is unreachable, every stage call
\* returns, a statement may fail with an error that names no missing object,
\* and no validation passes.
HealEnv ==
    [ failing   |-> {},
      passes    |-> {FALSE},
      files     |-> 0..MaxFiles,
      in_memory |-> BOOLEAN,
      msgs      |-> {<<"syntax error line 1">>},
      replies   |-> {},
      overlap   |-> FALSE,
      requests  |-> 1 ]

\* The engine serving run-stream requests only, in environment e.
RunStep(e) ==
    \/ \E s \in Streams : RunStart(s, e)
    \/ \E s \in Streams : NodeBegin(s, e)
    \/ \E s \in Streams : NodeEnd(s, e)
    \/ \E s \in Streams : ExecFile(s, e)
    \/ \E s \in Streams : ExecNoFile(s, e)
    \/ \E s \in Streams : SupervisorBegin(s)
    \/ \E s \in Streams : SupervisorEnd(s, e)
    \/ \E s \in Streams : Emit(s)
    \/ \E s \in Streams : Finish(s)

HealNext == RunStep(HealEnv)

\* One run-stream request with the LLM unreachable, every outcome of the
\* stages.
TermEnv == [FallbackEnv EXCEPT !.requests = 1]

TermNext == RunStep(TermEnv)

\* Once a stream is open its steps are taken: a node that can begin begins,
\* a blocking call returns, the runner handles the update it was given.
TermFairness ==
    /\ WF_vars(\E s \in Streams : NodeBegin(s, TermEnv))
    /\ WF_vars(\E s \in Streams : NodeEnd(s, TermEnv))
    /\ WF_vars(\E s \in Streams : ExecFile(s, TermEnv))
    /\ WF_vars(\E s \in Streams : ExecNoFile(s, TermEnv))
    /\ WF_vars(\E s \in Streams : SupervisorBegin(s))
    /\ WF_vars(\E s \in Streams : SupervisorEnd(s, TermEnv))
    /\ WF_vars(\E s \in Streams : Emit(s))
    /\ WF_vars(\E s \in Streams : Finish(s))

Spec == Init /\ [][WfNext]_vars

SpecRace == RaceInit /\ [][RaceNext]_vars

\* The PTY session alone: one reader, the capture tap, execute_command.
SpecPty == Init /\ [][PtyNext]_vars

\* ================================================================== claims
\* C1: in every reachable state of a run, whatever allowed decisions the
\* supervisor takes and whatever the budget, self_heal_iteration <=
\* max_self_heal_iterations.
C1_WithinBudget ==
    ctx.self_heal_iteration <= ctx.max_self_heal_iterations

\* C2: once the run is marked paused, no stage node of the run executes until
\* resume is called (resume clears the mark), whatever requests arrive.
C2_PausedRunsNothing ==
    run.paused => \A s \in Streams : streams[s].phase # "exec"

\* The stages that precede execute_sql.
BeforeExecuteSql ==
    {"init_project", "add_source_code", "apply_schema_mapping", "convert_code"}

\* C3: a resumed stream enters the graph at execute_sql: it never executes
\* init_project, add_source_code, apply_schema_mapping or convert_code.
C3_ResumeEntersAtExecuteSql ==
    \A s \in Streams :
        streams[s].kind = "resume" /\ streams[s].phase \in {"exec", "emit"}
            => streams[s].node \notin BeforeExecuteSql

\* C4: for the run, at most one stage node or supervisor step is executing
\* at any time, under every interleaving of run-stream and resume requests.
C4_OneNodeAtATime ==
    Cardinality({s \in Streams : streams[s].phase = "exec"}) <= 1

\* Stream s's supervisor step returns in this step (the edge moves it on).
SupervisorReturns(s) ==
    /\ streams[s].node = "supervisor"
    /\ streams'[s].node # "supervisor"

\* The stage the returning supervisor step evaluated: its local `stage`.
Evaluated(s) ==
    IF streams[s].phase = "ready" THEN ctx.current_stage ELSE streams[s].stage

\* C5: after every supervisor step, supervisor_decision is in the allowed set
\* (per-stage table) of the stage the supervisor evaluated.
C5_DecisionAllowed ==
    [][\A s \in Streams :
          SupervisorReturns(s) /\ Evaluated(s) \in SupervisedStages
              => ctx'.supervisor_decision \in AllowedDecisions(Evaluated(s))]_vars

\* C6: once current_stage is error it stays error until the run ends (while a
\* stream of the run is open).
C6_ErrorStays ==
    [][ctx.current_stage = "error" /\ ~Quiet
          => ctx'.current_stage = "error"]_vars

\* Position of a stage in the order init_project, ..., finalize/completed.
StageRank(stage) ==
    CASE stage = "idle" -> 0
      [] stage = "init_project" -> 1
      [] stage = "add_source_code" -> 2
      [] stage = "apply_schema_mapping" -> 3
      [] stage = "convert_code" -> 4
      [] stage = "execute_sql" -> 5
      [] stage = "self_heal" -> 6
      [] stage = "validate" -> 7
      [] stage = "human_review" -> 8
      [] OTHER -> 9

\* C7: across a run, pause and resume included, current_stage never goes back
\* to an earlier stage; the only back-edge is human_review -> execute_sql
\* (the validate -> self_heal retry of the stage graph is let through here).
C7_StageOrder ==
    [][\/ StageRank(ctx'.current_stage) >= StageRank(ctx.current_stage)
       \/ ctx.current_stage = "human_review" /\ ctx'.current_stage = "execute_sql"
       \/ ctx.current_stage = "validate" /\ ctx'.current_stage = "self_heal"]_vars

\* The runner handles in this step the update of stream s's execute_sql that
\* failed on a missing object.
HandlesMissingObject(s) ==
    /\ streams[s].phase = "emit"
    /\ streams[s].node = "execute_sql"
    /\ streams[s].error_type = "missing_object"
    /\ streams'[s] # streams[s]

\* C8: when execute_sql failed on a "does not exist" error, the run becomes
\* paused and the stream ends with human_review_required, no further stage
\* running in that stream.
C8_MissingObjectPauses ==
    [][\A s \in Streams :
          HandlesMissingObject(s)
              => /\ run'.paused
                 /\ streams'[s].phase = "done"
                 /\ streams'[s].last_event = "human_review_required"]_vars

\* Stream s executes a converted file in this step.
ExecutesFile(s) ==
    /\ streams[s].phase = "exec"
    /\ streams[s].node = "execute_sql"
    /\ streams[s].index < streams[s].nfiles
    /\ streams'[s] # streams[s]

\* C9: after a missing-object pause, a DDL upload and a resume, no converted
\* file that already executed successfully in this run is executed again.
C9_NoFileExecutedTwice ==
    [][\A s \in Streams :
          ExecutesFile(s) /\ streams[s].kind = "resume"
              => <<"file", streams[s].index>> \notin ctx.execution_log]_vars

\* C10: while a command started by execute_command is in flight, the data
\* read() has returned never contains the marker, neither inside one chunk
\* nor across consecutive chunks, however the output is split into chunks.
C10_MarkerNeverForwarded ==
    command # "idle" => ~Contains(forwarded, Marker)
\* The terminal connections and the PTY registry.
SpecReg == Init /\ [][RegNext]_vars

\* The chat loop, with the user's terminal connecting and disconnecting
\* meanwhile.
ChatTerminals == {1}

ChatRegNext == ChatNext \/ RegStep(ChatTerminals)

SpecChat == Init /\ [][ChatRegNext]_vars

\* The same, where the consumer keeps reading the generator and each LLM
\* call and each command returns.
ChatLoopStep ==
    CallLlm \/ (\E r \in Responses : LlmReturns(r)) \/ CommandReturns
        \/ IterationsExhausted

SpecChatLive == SpecChat /\ WF_vars(ChatLoopStep)

\* The LLM client's strategy selection.
SpecLlm == Init /\ [][LlmNext]_vars

\* The session manager and the users of a session's connection.
SpecSess == Init /\ [][SessNext]_vars

\* The SSE formatter over an event source, with a client that may leave.
SpecStream == Init /\ [][DsNext]_vars

\* The session with its event loop running: a started execute_command goes
\* on, and time passes while it waits; the reader may stop at any point, and
\* takes the larger chunks only.
SpecPtyLive ==
    /\ Init /\ [][PtyStep({MaxChunk - 1, MaxChunk})]_vars
    /\ WF_vars(ExecuteCommandWrite) /\ WF_vars(ExecuteCommandLoop)
    /\ WF_vars(Tick) /\ WF_vars(ExecuteCommandWake)
    /\ WF_vars(ExecuteCommandReturn)

\* finalize_node applied twice to one context.
SpecFinalize == Init /\ [][FinNext]_vars

\* The decision parser applied to a text.
SpecParse == Init /\ [][ParseNext]_vars

\* The validate stage on the contexts the earlier stages may leave.
SpecValidate == Init /\ [][ValNext]_vars

\* The PTY session with calls that return, raise or are cancelled.
SpecPtyRaise == Init /\ [][PtyRaiseNext]_vars

\* One PTY session and the execute_command calls that share it.
SpecPty2 == Init /\ [][Pty2Next]_vars

\* The activity-log bridge of one run and its streams.
SpecBridge == Init /\ [][BridgeNext]_vars

\* The engine with the supervisor's LLM unreachable.
SpecFallback == Init /\ [][FallbackNext]_vars

\* One run with failing validations and the LLM unreachable.
SpecHeal == Init /\ [][HealNext]_vars

\* One stream under fallback routing, its steps taken fairly.
SpecTerm == Init /\ [][TermNext]_vars /\ TermFairness

\* A run whose client may ask for its cancellation.
SpecCancel == Init /\ [][CancelNext]_vars

\* C11: when the marker is found, execute_command returns exactly the
\* command's output (the text between the echoed command line and the
\* marker printed after it), whatever the chunks.
C11_ReturnsCommandOutput ==
    result.by = "marker" => result.text = CommandOutput

\* C12: a step that re-registers a session-id to another PTY session closes
\* the session that was registered under the id before.
C12_ReplacedIsClosed ==
    [][\A id \in SessionIds :
          /\ registry[id] # NoSession
          /\ registry'[id] # NoSession
          /\ registry'[id] # registry[id]
          => terminals'[registry[id]].state = "closed"]_vars

\* C13: for every registry state, session-id and session, register followed
\* by unregister gives back the registry as it was before the register.
C13_RegisterUnregisterIdentity ==
    \A id \in SessionIds, s \in Terminals :
        Unregister(Register(registry, id, s), id) = registry

\* C14: a chat request makes at most 15 LLM calls; when all 15 responses
\* were command decisions the loop has ended with the 'Maximum tool
\* iterations reached' delta as its last event; and every request's loop
\* terminates.
C14_IterationCap ==
    /\ [](/\ chat.calls <= max_tool_iterations
          /\ chat.iteration = max_tool_iterations /\ chat.phase # "call"
               => chat.phase = "done" /\ chat.last_event = "max_iterations")
    /\ (chat.phase = "call") ~> (chat.phase = "done")

C14_CapReached ==
    /\ chat.phase = "done"
    /\ chat.calls = max_tool_iterations
    /\ chat.last_event = "max_iterations"

\* C15: once 'no active terminal' was reported the chat loop has terminated:
\* no further LLM call, no command executed.
C15_NoTerminalEndsChat ==
    chat.no_terminal => chat.phase = "done" /\ chat.last_event = "no_terminal"

C17_OneUseOfConnection ==
    \A k \in Clients : Cardinality(UsingConnection(k)) <= 1

\* C18: every context that was created and is not the map's entry for the
\* session-id has been closed.
C18_NoLeakedContext ==
    \A k \in Clients : contexts[k] = "open" => sessions = k

\* C19: a stream ended by the client's disconnection ends with an abort
\* event and nothing after it (no text-end, finish or [DONE]).
C19_AbortOnDisconnect ==
    ds.pc = "closed" /\ ds.ended_by = "disconnect"
        => ds.out[Len(ds.out)] = "abort"

\* C20: a ping leaves the event source running, and a stream that ends
\* without a disconnection has delivered every event of its source.
C20_PingKeepsSourceRunning ==
    /\ ds.source # "cancelled"
    /\ ds.pc = "closed" /\ ds.ended_by = "exhausted" => ds.delivered = ds.n

\* C21: a second finalize on a context that finalize already completed
\* changes nothing except timestamps: output_files, the counts of
\* summary_report, output_path, validation_passed and current_stage are the
\* same after the second call as after the first.
C21_FinalizeTwiceIsNoOp ==
    fin.pc = "second" =>
        /\ fin.c.output_files = fin.first.output_files
        /\ fin.c.summary_report = fin.first.summary_report
        /\ fin.c.output_path = fin.first.output_path
        /\ fin.c.validation_passed = fin.first.validation_passed
        /\ fin.c.current_stage = fin.first.current_stage

\* A stage node starts its work on some stream in this step.
StageStarts ==
    \E s \in Streams :
        /\ streams[s].phase = "ready" /\ streams[s].node \in TaskNodes
        /\ streams'[s].phase = "exec"

\* C22: a run can be cancelled: once a cancel request has been made for the
\* run, the runner and the supervisor observe it and no further stage
\* starts; the run ends cancelled or in error with a final status event.
C22_NoStageAfterCancel ==
    [][cancel => ~StageStarts]_vars

\* a is the start of b.
IsPrefix(a, b) == Len(a) <= Len(b) /\ SubSeq(b, 1, Len(a)) = a

\* Text without the symbols of the marker echo.
NonMarker(text) == SelectSeq(text, LAMBDA x : x \notin {"echo", "m1", "m2"})

\* C23: execute_command never reads from the PTY subprocess (its steps take
\* nothing from the pending output); every chunk read obtains while the
\* capture is active is appended to the capture buffer exactly once, at its
\* end, and the reader gets the chunks in the order they arrived.
C23_CaptureInOrder ==
    [][LET k    == Len(pty_out) - Len(pty_out')
           data == SubSeq(pty_out, 1, k)
       IN
       /\ command' # command => IsPrefix(pty_out, pty_out')
       /\ k > 0 =>
            /\ pty_out' = SubSeq(pty_out, k + 1, Len(pty_out))
            /\ capture_buffer' = IF capturing
                                 THEN Append(capture_buffer, data)
                                 ELSE capture_buffer
            /\ IsPrefix(forwarded, forwarded')
            /\ NonMarker(forwarded') = NonMarker(forwarded \o data)]_vars

\* Two chunks were captured during a command, and data reached the reader.
C23_TwoChunksCaptured ==
    /\ capturing /\ command = "waiting"
    /\ Len(capture_buffer) >= 2
    /\ forwarded # <<>>

\* C24: execute_command returns through the idle fallback only if at least
\* one chunk was captured for the command and no chunk arrived for the idle
\* interval; with an empty capture buffer it returns by the marker or the
\* total timeout only.
C24_IdleOnlyAfterData ==
    [][command = "loop" /\ command' = "idle" =>
          /\ result'.by = "idle" =>
                /\ Len(capture_buffer) > 0
                /\ now - arrived_at >= IdleFallback
          /\ Len(capture_buffer) = 0 => result'.by \in {"marker", "timeout"}]_vars

\* A command returned by the idle fallback, with chunks captured.
C24_ReturnedIdle == result.by = "idle" /\ result.chunks > 0

\* C25: execute_command always eventually returns: with no marker, no data
\* or no reader it waits no longer than the total timeout, then returns the
\* stripped capture.
C25_AlwaysReturns ==
    /\ [](command \in {"loop", "waiting"} => now - wait_loop.start <= Timeout)
    /\ [][command = "loop" /\ command' = "idle" /\ result'.by = "timeout" =>
            result'.text = Strip(StripAnsi(Join(capture_buffer)))]_vars
    /\ (command # "idle") ~> (command = "idle")

\* A command returned at the total timeout without any data.
C25_TimedOutEmpty == result.by = "timeout" /\ result.chunks = 0

\* Responses that end the request: plain text, or a finish / pause decision.
EndingResponses ==
    {"text", "blank", "finish", "pause", "narrated_finish", "narrated_pause"}

\* C26 as stated: a plain-text response or a finish/pause decision ends the
\* request with at most one delta emitted for it.
C26_OneDeltaThenEnd ==
    chat.response \in EndingResponses =>
        chat.phase = "done" /\ chat.end_deltas <= 1

\* C26, amended: a plain-text response or a finish/pause decision ends the
\* request: at most one final delta is emitted for it, after at most one
\* delta with the narration that preceded a finish/pause JSON; no LLM call
\* and no command execution follows in that request.
C26_FinalDeltaThenEnd ==
    /\ [](chat.response \in EndingResponses =>
            /\ chat.phase = "done"
            /\ chat.end_deltas <=
                  IF chat.response \in {"narrated_finish", "narrated_pause"}
                  THEN 2 ELSE 1)
    /\ [][chat.response \in EndingResponses /\ chat'.chats = chat.chats =>
            /\ chat'.calls = chat.calls
            /\ chat'.executed = chat.executed
            /\ chat'.phase = "done"]_vars

\* A pause decision that came after narration ended a request that had
\* executed a command before.
C26_PausedAfterCommand ==
    /\ chat.response = "narrated_pause" /\ chat.end_deltas = 2
    /\ chat.phase = "done" /\ chat.executed

RECURSIVE ScanState(_, _, _)
\* The reading of s[i..j] as JSON text that starts outside a string: the
\* depth of braces outside strings, whether j is inside a string, and
\* whether the symbol after j is escaped.
ScanState(s, i, j) ==
    IF j < i THEN [depth |-> 0, str |-> FALSE, esc |-> FALSE]
    ELSE LET p == ScanState(s, i, j - 1)
             quotes == IF p.esc
                       THEN (IF s[j] \in {"A", "B"} THEN 1 ELSE 0)
                       ELSE (IF s[j] = "q" THEN 1 ELSE 0)
             plain == ~p.esc /\ ~p.str
         IN [depth |-> p.depth + (IF plain /\ s[j] = "{" THEN 1 ELSE 0)
                               - (IF plain /\ s[j] = "}" THEN 1 ELSE 0),
             str   |-> IF quotes = 1 THEN ~p.str ELSE p.str,
             esc   |-> ~p.esc /\ p.str /\ s[j] = "b"]

\* s[i..j] is a balanced {...}: the brace at j is the first to close the one
\* at i.
Balanced(s, i, j) ==
    /\ s[i] = "{" /\ i < j /\ j <= Len(s)
    /\ ScanState(s, i, j).depth = 0
    /\ \A k \in i..(j - 1) : ScanState(s, i, k).depth > 0

RECURSIVE Enclosed(_, _)
\* Position i lies within the reach of an opening brace before it that is
\* itself top-level: inside its object, or after it when it never closes.
Enclosed(s, i) ==
    \E h \in 1..(i - 1) :
        /\ s[h] = "{" /\ ~Enclosed(s, h)
        /\ ~\E j \in (h + 1)..(i - 1) : Balanced(s, h, j)

\* The balanced top-level {...} substrings of s, by position.
TopLevelObjects(s) ==
    {ij \in (1..Len(s)) \X (1..Len(s)) :
        /\ s[ij[1]] = "{" /\ ~Enclosed(s, ij[1])
        /\ Balanced(s, ij[1], ij[2])}

\* The first of a non-empty set of objects.
FirstOf(objs) == CHOOSE ij \in objs : \A o \in objs : ij[1] <= o[1]

\* C27 as stated: the parser returns the first balanced top-level {...}
\* substring when it is valid JSON with a known action, and null otherwise.
C27_FirstObjectOrNull ==
    parse.pc = "parsed" =>
        LET s    == parse.text
            objs == TopLevelObjects(s)
        IN parse.value =
             IF objs # {} /\ IsToolCall(SubSeq(s, FirstOf(objs)[1],
                                                  FirstOf(objs)[2]))
             THEN SubSeq(s, FirstOf(objs)[1], FirstOf(objs)[2])
             ELSE Null

\* C27, amended: the parser returns the first of the balanced top-level
\* {...} substrings that is valid JSON with a known action, and null when
\* there is none.
C27_FirstValidObjectOrNull ==
    parse.pc = "parsed" =>
        LET s     == parse.text
            calls == {ij \in TopLevelObjects(s) :
                        IsToolCall(SubSeq(s, ij[1], ij[2]))}
        IN parse.value =
             IF calls # {}
             THEN SubSeq(s, FirstOf(calls)[1], FirstOf(calls)[2])
             ELSE Null

\* The parser returned an object that is not the first one of the text.
C27_SecondObjectReturned ==
    /\ parse.pc = "parsed" /\ parse.value # Null
    /\ \E ij \in TopLevelObjects(parse.text) :
          ij[2] < Len(parse.text) - 2

\* The decision the routing table gives for the stage the supervisor
\* evaluated, from the context it evaluated.
TableDecision(c, stage) ==
    CASE stage = "execute_sql" ->
            IF c.execution_passed THEN "proceed"
            ELSE IF c.missing_objects # <<>> THEN "human_review"
            ELSE "self_heal"
      [] stage = "validate" ->
            IF c.validation_passed THEN "proceed"
            ELSE IF c.self_heal_iteration < c.max_self_heal_iterations
            THEN "self_heal"
            ELSE "finalize"
      [] OTHER -> "proceed"

\* C28: with the LLM unreachable, the supervisor's evaluation of a stage
\* decides by the table: proceed when the stage succeeded; after a failed
\* execute_sql, human_review with missing objects and self_heal without;
\* after a failed validate, self_heal while self_heal_iteration is below
\* max_self_heal_iterations and finalize otherwise.
C28_FallbackTable ==
    [][\A s \in Streams :
          SupervisorReturns(s) /\ streams[s].phase = "exec"
              => ctx'.supervisor_decision =
                    TableDecision(ctx, streams[s].stage)]_vars

\* The fallback sent a run to finalize after a failed validation that
\* followed a self-heal.
C28_FinalizedAfterFailedValidate ==
    /\ ctx.supervisor_decision = "finalize"
    /\ ctx.current_stage = "validate" /\ ~ctx.validation_passed
    /\ ctx.self_heal_iteration >= 1

C31_IndexNeverDecreases ==
    [][ctx'.last_executed_file_index >= ctx.last_executed_file_index]_vars

\* C32: a stage flag (project initialized, source added, converted) that is
\* true stays true: no later stage execution of the run, after a resume
\* included, sets it back to false.
C32_FlagsOnlyForward ==
    [][/\ ctx.scai_project_initialized => ctx'.scai_project_initialized
       /\ ctx.scai_source_added => ctx'.scai_source_added
       /\ ctx.scai_converted => ctx'.scai_converted]_vars

\* C33: the validate stage run on a context with no source line and no
\* converted line (every source file and every converted file empty or
\* absent) yields validation_passed = true.
C33_EmptyValidatesTrue ==
    /\ val.pc = "validated"
    /\ CountFound(val.source_files) = 0
    /\ CountFound(val.converted_files) = 0
    => val.validation_passed

\* C34: the registry entry of a session-id is removed only by the disconnect
\* of the connection whose session it holds: no step removes the entry of a
\* session whose own terminal WebSocket is still open after the step.
C34_OpenStaysRegistered ==
    [][\A id \in SessionIds :
          /\ registry[id] # NoSession
          /\ terminals'[registry[id]].state \in {"open", "exited"}
          => registry'[id] # NoSession]_vars

\* C35: execute_command calls on one PTY session that overlap in time do not
\* interfere: a call returns at its own marker with chunks of its own
\* command only, and the return of one call neither switches the capture
\* off nor clears the buffer while another call is waiting.
C35_CallsDoNotInterfere ==
    [][\A c \in Calls :
          pty2.frame[c].pc = "waiting" /\ pty2'.frame[c].pc = "returned"
          => /\ pty2'.frame[c].by = "marker"
             /\ \A i \in 1..Len(pty2'.frame[c].output) :
                   pty2'.frame[c].output[i][2] = c
             /\ \A d \in Calls :
                   d # c /\ pty2.frame[d].pc \in {"started", "waiting"}
                   => /\ pty2'.capturing
                      /\ pty2'.capture_buffer = pty2.capture_buffer]_vars

\* C36: in every reachable state of the run record, paused is true exactly
\* when status is "paused", and status is one of pending, running, paused,
\* completed, failed.
C36_PausedIffStatusPaused ==
    /\ run.paused <=> run.status = "paused"
    /\ run.status \in {"pending", "running", "paused", "completed", "failed"}

\* C37: under deterministic fallback routing a run stream terminates: a run
\* that is running reaches status paused, completed or failed; and the loop
\* from validate back to self_heal is taken at most max_self_heal_iterations
\* times: it is taken only while self_heal_iteration is below the budget,
\* every start of self_heal adds one to self_heal_iteration, and no step
\* lowers it.
C37_FallbackTerminates ==
    /\ (run.status = "running")
          ~> (run.status \in {"paused", "completed", "failed"})
    /\ [][/\ \A s \in Streams :
               /\ SupervisorReturns(s)
               /\ Evaluated(s) = "validate"
               /\ streams'[s].node = "self_heal"
               => ctx.self_heal_iteration < ctx.max_self_heal_iterations
          /\ \A s \in Streams :
               /\ streams[s].phase = "ready" /\ streams[s].node = "self_heal"
               /\ streams'[s].phase # "ready"
               => ctx'.self_heal_iteration = ctx.self_heal_iteration + 1
          /\ ctx'.self_heal_iteration >= ctx.self_heal_iteration]_vars

\* C37 witness: a run completed after its execution passed, its validation
\* failed and the one self-heal of its budget was taken from validate.
C37_CompletedAfterLoop ==
    /\ run.status = "completed"
    /\ ctx.execution_passed
    /\ ctx.summary_report # NoReport
    /\ ~ctx.summary_report.validation_passed
    /\ ctx.max_self_heal_iterations >= 1
    /\ ctx.self_heal_iteration = ctx.max_self_heal_iterations

\* Client c's create_or_replace fails in this step: the connect call raised.
ConnectFails(c) ==
    /\ clients[c].pc = "connecting"
    /\ clients'[c].pc = "done"
    /\ clients'[c].ctx = NoContext

\* C38 as stated: when create_or_replace fails to open the new connection,
\* the session that was registered under the session-id before the call is
\* still registered and still open.
C38_FailedConnectKeepsPrior ==
    [][\A c \in Clients :
          ConnectFails(c) /\ clients[c].prior # NoContext
          => /\ sessions' = clients[c].prior
             /\ contexts'[clients[c].prior] = "open"]_vars

\* C38: when create_or_replace fails to open the new connection, the
\* session that was registered under the session-id before the call is
\* closed and is not registered any more.
C38_FailedConnectDropsPrior ==
    [][\A c \in Clients :
          ConnectFails(c) /\ clients[c].prior # NoContext
          => /\ sessions' # clients[c].prior
             /\ contexts'[clients[c].prior] = "closed"]_vars

\* C38 witness: a create_or_replace that replaced a registered session has
\* failed.
C38_ReplacingConnectFailed ==
    \E c \in Clients :
       /\ clients[c].op = "connect" /\ clients[c].pc = "done"
       /\ clients[c].ctx = NoContext
       /\ clients[c].prior # NoContext

\* C39: in a run none of whose validations passed (the last one failed, or
\* none ran), ctx.validation_passed is still false after finalize, which is
\* the value the final summary text reports.
C39_FailedValidationStaysFailed ==
    ctx.current_stage = "completed" => ~ctx.validation_passed

\* C40: whenever no execute_command call is in flight on the session (none
\* was made, or the last one returned by marker, idle fallback or timeout,
\* raised or was cancelled), capturing is false and the capture buffer is
\* empty: what read takes between commands is not captured.
C40_NoCaptureBetweenCommands ==
    command = "idle" => ~capturing /\ capture_buffer = <<>>

\* C40 witness: the one call made so far timed out before any chunk was
\* read; its output was read after it returned, and the buffer is empty.
C40_ReadAfterReturn ==
    /\ command = "idle"
    /\ commands = 1
    /\ result.by = "timeout"
    /\ result.chunks = 0
    /\ forwarded # <<>>
    /\ capture_buffer = <<>>

====
